---- MODULE Spec2Model ----
(***************************************************************************)
(* Credential lifecycle engine of nango: the connection store              *)
(* (ConnectionService), the refresh coordinator                            *)
(* (refreshCredentialsIfNeeded) and the authorization state machine        *)
(* (OAuthController.oauthRequest / oauthCallback).                         *)
(*                                                                         *)
(* Conventions.  A JavaScript value that is falsy (undefined, null, '')    *)
(* is the empty string "" for text fields and 0 for numeric fields.        *)
(* Every await of a handler that touches shared state (the connections     *)
(* table, the session store, the lock store) is a separate step, so that   *)
(* handlers of different requests interleave exactly at those points.      *)
(***************************************************************************)
EXTENDS Integers, Sequences, FiniteSets, TLC

VARIABLES
    rows,       \* table _nango_connections: a set of row records
    nextId,     \* the next surrogate id the table hands out
    writes,     \* per natural key: number of write statements executed so far
    wpc,        \* per worker: position inside its current service call
    wcall,      \* per worker: the service call in progress and its arguments
    wfound,     \* per worker: what checkIfConnectionExists returned to it
    wret,       \* per worker: what its last completed call returned
    wprev,      \* per worker: what the call before that returned
    calls,      \* service calls started so far
    now,        \* Date.now(), in ms
    lock,       \* the lock store: per lock key, whether an entry exists and when it expires
    rpc,        \* per caller of getConnectionCredentials: position inside the call
    rconn,      \* per caller: the `connection` object it loaded and passes along
    rinstant,   \* per caller: its instantRefresh argument
    rstart,     \* per caller: `start` of its tryAcquire
    rres,       \* per caller: the ServiceResponse it returns
    rcalled,    \* per caller: whether it called the provider, and the outcome
    issued,     \* number of credentials the provider has issued on refresh
    sessions,   \* the session store: a set of session records
    nextSession,\* number of session objects built so far
    resp,       \* how the last oauthRequest ended
    templates,  \* configService: authorization_params of the templates it holds
    cpc,        \* per callback handler: position inside oauthCallback
    creq,       \* per handler: the query of the callback request it serves
    csession,   \* per handler: the session findById returned to it
    ccall,      \* per handler: the upsertConnection call in progress
    cfound,     \* per handler: what checkIfConnectionExists returned to it
    cout,       \* per handler: what it answered
    chist,      \* per handler: what it has done so far
    encryptionKey, \* EncryptionManager.key of the running process ("" when not configured)
    ein,        \* the connection a service call passes to encryptConnection
    estored,    \* what encryptConnection returned (the row that is stored)
    eout,       \* what decryptConnection returned for the stored row
    estep,      \* position of the call that writes and reads back
    dbConfig,   \* table _nango_db_config: the checkpoint rows
    dbConnections, \* table _nango_connections with its encryption columns
    connections,\* encryptDatabase: the selected rows it has still to walk
    mpc,        \* position of the process inside encryptDatabaseIfNeeded
    mtimes,     \* per row id: how many times the row was encrypted
    mruns,      \* how many times the process has booted
    mstart,     \* both tables as they were when the process booted
    mkeys,      \* the keys the process has booted with
    orphan,     \* the lock entry a holder left behind when its process crashed
    decision,   \* one call of refreshCredentialsIfNeeded: its arguments and how far it got
    merge       \* one oauth2Callback: what its connectionConfig is built from, and the result

storeVars == <<rows, nextId, writes, wpc, wcall, wfound, wret, wprev, calls>>

refreshVars == <<now, lock, rpc, rconn, rinstant, rstart, rres, rcalled, issued>>

handlerVars == <<cpc, creq, csession, ccall, cfound, cout, chist>>

authVars == <<sessions, nextSession, resp, templates, handlerVars>>

envelopeVars == <<ein, estored, eout, estep>>

migrationVars == <<dbConfig, dbConnections, connections, mpc, mtimes, mruns, mstart, mkeys>>

encVars == <<encryptionKey, envelopeVars, migrationVars>>

vars == <<storeVars, refreshVars, authVars, encVars, orphan, decision, merge>>

----------------------------------------------------------------------------
(* Bounds of the model *)

MaxCalls == 3

Workers == {"w1", "w2"}

ConnectionIds == {"c1", "c2"}
ProviderConfigKeys == {"gh"}
EnvironmentIds == {1}

NaturalKeys ==
    [connection_id : ConnectionIds, provider_config_key : ProviderConfigKeys,
     environment_id : EnvironmentIds]

ConfigKeys == {"k1", "k2"}
MetaKeys == {"k1", "k2"}

----------------------------------------------------------------------------
(* Values *)

CREATION == "creation"
OVERRIDE == "override"

EmptyObject == [k \in ConfigKeys |-> ""]

\* metadata column: SQL NULL, or a JSON object
MetaNull == [nul |-> TRUE, kv |-> [k \in MetaKeys |-> ""]]
MetaObj(kv) == [nul |-> FALSE, kv |-> kv]

\* `credentials: {}`
NoCredentials == [type |-> ""]

KeyOf(r) ==
    [connection_id |-> r.connection_id,
     provider_config_key |-> r.provider_config_key,
     environment_id |-> r.environment_id]

----------------------------------------------------------------------------
(* Credential Parser: ConnectionService.parseRawCredentials *)

OAuth2 == "OAUTH2"
OAuth1 == "OAUTH1"
OAuth2CC == "OAUTH2_CC"
App == "APP"
AppStore == "APP_STORE"
Custom == "CUSTOM"

\* A provider response.  Text fields are "" and numeric fields 0 when the
\* response does not carry them (or carries a falsy value).
RawResponse(at, rt, ea, ei, ot, os, tk) ==
    [access_token |-> at, refresh_token |-> rt, expires_at |-> ea, expires_in |-> ei,
     oauth_token |-> ot, oauth_token_secret |-> os, token |-> tk]

\* parseTokenExpirationDate on a UNIX timestamp in seconds: a Date, held in ms
ParseTokenExpirationDate(seconds) == seconds * 1000

Thrown == [ok |-> FALSE]
Returned(c) == [ok |-> TRUE, credentials |-> c]

ExpiresAtOf(raw, nowMs) ==
    IF raw.expires_at # 0 THEN ParseTokenExpirationDate(raw.expires_at)
    ELSE IF raw.expires_in # 0 THEN nowMs + raw.expires_in * 1000
    ELSE 0

ParseRawCredentials_Lenient(raw, authMode, nowMs) ==
    Returned([type |-> authMode,
              access_token |-> raw.access_token,
              refresh_token |-> raw.refresh_token,
              oauth_token |-> raw.oauth_token,
              oauth_token_secret |-> raw.oauth_token_secret,
              token |-> raw.token,
              expires_at |-> ExpiresAtOf(raw, nowMs),
              raw |-> raw])

ParseRawCredentials(raw, authMode, nowMs) ==
    CASE authMode = OAuth2 ->
            IF raw.access_token = "" THEN Thrown
            ELSE Returned([type |-> OAuth2,
                           access_token |-> raw.access_token,
                           refresh_token |-> raw.refresh_token,
                           expires_at |-> ExpiresAtOf(raw, nowMs),
                           raw |-> raw])
      [] authMode = OAuth1 ->
            IF raw.oauth_token = "" \/ raw.oauth_token_secret = "" THEN Thrown
            ELSE Returned([type |-> OAuth1,
                           oauth_token |-> raw.oauth_token,
                           oauth_token_secret |-> raw.oauth_token_secret,
                           raw |-> raw])
      [] authMode = OAuth2CC ->
            IF raw.token = "" THEN Thrown
            ELSE Returned([type |-> OAuth2CC,
                           token |-> raw.token,
                           client_id |-> "",
                           client_secret |-> "",
                           expires_at |-> ExpiresAtOf(raw, nowMs),
                           raw |-> raw])
      [] OTHER -> Thrown

----------------------------------------------------------------------------
(* Table _nango_connections *)

Live(k) == {r \in rows : KeyOf(r) = k /\ ~r.deleted}

UniqueViolation_NoIndex(k) == FALSE

\* the partial unique index on (connection_id, provider_config_key,
\* environment_id) WHERE NOT deleted: an INSERT of a second live row fails
UniqueViolation(k) == Live(k) # {}

NewRow(id, k, credentials, connection_config, metadata) ==
    [id |-> id,
     connection_id |-> k.connection_id,
     provider_config_key |-> k.provider_config_key,
     environment_id |-> k.environment_id,
     credentials |-> credentials,
     connection_config |-> connection_config,
     metadata |-> metadata,
     deleted |-> FALSE]

CheckIfConnectionExists_Blind(k) ==
    {[found |-> FALSE, id |-> 0, metadata |-> MetaNull]}

\* ConnectionService.checkIfConnectionExists: null, or {id, metadata} of a
\* row the query returned
CheckIfConnectionExists(k) ==
    IF Live(k) = {} THEN {[found |-> FALSE, id |-> 0, metadata |-> MetaNull]}
    ELSE {[found |-> TRUE, id |-> r.id, metadata |-> r.metadata] : r \in Live(k)}

\* UPDATE ... WHERE id = :id AND deleted = false
UpdateById(id, f(_)) ==
    {IF r.id = id /\ ~r.deleted THEN f(r) ELSE r : r \in rows}

\* UPDATE ... WHERE <natural key> AND deleted = false
UpdateByKey(k, f(_)) ==
    {IF KeyOf(r) = k /\ ~r.deleted THEN f(r) ELSE r : r \in rows}

----------------------------------------------------------------------------
(* Connection Store: the service calls that write the table.  Each call is  *)
(* run by a worker (a request being served); a call that first looks the    *)
(* row up (checkIfConnectionExists) and then writes is two steps.           *)

CredentialInputs ==
    {ParseRawCredentials(RawResponse(at, "rt", 0, 3600, "", "", ""), OAuth2, 0).credentials :
        at \in {"atA", "atB"}}

ApiCredentialInputs == {[type |-> "API_KEY", apiKey |-> "key"]}

ConfigInputs == {[EmptyObject EXCEPT !["k1"] = "v"]}

\* the optional metadata argument: left out (MetaNull), or an object with
\* one key
MetadataInputs ==
    {MetaNull, MetaObj([k \in MetaKeys |-> IF k = "k2" THEN "b" ELSE ""]),
     MetaObj([k \in MetaKeys |-> IF k = "k1" THEN "a" ELSE ""])}

Calls ==
    [name : {"upsertConnection"}, key : NaturalKeys, credentials : CredentialInputs,
     connection_config : ConfigInputs, metadata : MetadataInputs]
    \cup
    [name : {"upsertApiConnection"}, key : NaturalKeys, credentials : ApiCredentialInputs,
     connection_config : {EmptyObject}, metadata : {MetaNull}]
    \cup
    [name : {"upsertUnauthConnection", "deleteConnection"}, key : NaturalKeys,
     credentials : {NoCredentials}, connection_config : {EmptyObject}, metadata : {MetaNull}]

NoCall ==
    [name |-> "", key |-> CHOOSE k \in NaturalKeys : TRUE, credentials |-> NoCredentials,
     connection_config |-> EmptyObject, metadata |-> MetaNull]

NotFound == [found |-> FALSE, id |-> 0, metadata |-> MetaNull]

NoReturn ==
    [name |-> "", key |-> NoCall.key, credentials |-> NoCredentials, threw |-> FALSE,
     operation |-> "", id |-> 0, writes |-> 0]

Return(c, threw, operation, id, w) ==
    [name |-> c.name, key |-> c.key, credentials |-> c.credentials, threw |-> threw,
     operation |-> operation, id |-> id, writes |-> w]

IsUpsert(c) == c.name \in {"upsertConnection", "upsertApiConnection", "upsertUnauthConnection"}

\* `a || b` on metadata values
MetaOr(a, b) == IF a.nul THEN b ELSE a

\* the row an upsert call writes over the stored row r it found
Overridden(c, found, r) ==
    CASE c.name = "upsertConnection" ->
            [r EXCEPT !.credentials = c.credentials,
                      !.connection_config = c.connection_config,
                      !.metadata = MetaOr(c.metadata, MetaOr(found.metadata, MetaNull))]
      [] c.name = "upsertApiConnection" ->
            [r EXCEPT !.credentials = c.credentials,
                      !.connection_config = c.connection_config]
      [] OTHER -> r

\* the row an upsert call inserts
Inserted(c, id) ==
    CASE c.name = "upsertConnection" ->
            NewRow(id, c.key, c.credentials, c.connection_config, MetaOr(c.metadata, MetaNull))
      [] c.name = "upsertApiConnection" ->
            NewRow(id, c.key, c.credentials, c.connection_config, MetaNull)
      [] OTHER -> NewRow(id, c.key, NoCredentials, EmptyObject, MetaNull)

SoftDeleted(r) == [r EXCEPT !.deleted = TRUE, !.credentials = NoCredentials]

StartCall(w) ==
    /\ wpc[w] = "idle"
    /\ calls < MaxCalls
    /\ \E c \in Calls :
        /\ wcall' = [wcall EXCEPT ![w] = c]
        /\ wpc' = [wpc EXCEPT ![w] = IF IsUpsert(c) THEN "check" ELSE "delete"]
    /\ calls' = calls + 1
    /\ UNCHANGED <<rows, nextId, writes, wfound, wret, wprev>>

\* const storedConnection = await this.checkIfConnectionExists(...)
UpsertCheck(w) ==
    /\ wpc[w] = "check"
    /\ \E f \in CheckIfConnectionExists(wcall[w].key) :
        wfound' = [wfound EXCEPT ![w] = f]
    /\ wpc' = [wpc EXCEPT ![w] = "write"]
    /\ UNCHANGED <<rows, nextId, writes, wcall, wret, wprev, calls>>

Finish(w, threw, operation, id) ==
    /\ writes' = [writes EXCEPT ![wcall[w].key] = @ + 1]
    /\ wret' = [wret EXCEPT ![w] = Return(wcall[w], threw, operation, id, writes'[wcall[w].key])]
    /\ wprev' = [wprev EXCEPT ![w] = wret[w]]
    /\ wpc' = [wpc EXCEPT ![w] = "idle"]
    /\ wfound' = [wfound EXCEPT ![w] = NotFound]
    /\ wcall' = [wcall EXCEPT ![w] = NoCall]
    /\ UNCHANGED calls

\* if (storedConnection) { UPDATE ... WHERE id; return OVERRIDE }
UpsertUpdate(w) ==
    /\ wpc[w] = "write"
    /\ wfound[w].found
    /\ rows' = UpdateById(wfound[w].id, LAMBDA r : Overridden(wcall[w], wfound[w], r))
    /\ UNCHANGED nextId
    /\ Finish(w, FALSE, OVERRIDE, wfound[w].id)

\* const [id] = INSERT ...; return CREATION
UpsertInsert(w) ==
    /\ wpc[w] = "write"
    /\ ~wfound[w].found
    /\ IF UniqueViolation(wcall[w].key)
       THEN /\ UNCHANGED <<rows, nextId>>
            /\ Finish(w, TRUE, "", 0)
       ELSE /\ rows' = rows \cup {Inserted(wcall[w], nextId)}
            /\ nextId' = nextId + 1
            /\ Finish(w, FALSE, CREATION, nextId)

\* ConnectionService.deleteConnection
DeleteConnection(w) ==
    /\ wpc[w] = "delete"
    /\ rows' = UpdateByKey(wcall[w].key, SoftDeleted)
    /\ UNCHANGED nextId
    /\ Finish(w, FALSE, "", Cardinality(Live(wcall[w].key)))

StoreInit ==
    /\ rows = {}
    /\ nextId = 1
    /\ writes = [k \in NaturalKeys |-> 0]
    /\ wpc = [w \in Workers |-> "idle"]
    /\ wcall = [w \in Workers |-> NoCall]
    /\ wfound = [w \in Workers |-> NotFound]
    /\ wret = [w \in Workers |-> NoReturn]
    /\ wprev = [w \in Workers |-> NoReturn]
    /\ calls = 0

----------------------------------------------------------------------------
(* Connection Store: the lookups.  Each is the set of rows its query       *)
(* returns (the service projects columns or takes result[0] of it).        *)

\* connection_config->>:key = :value
ConfigMatches(r, key, value) ==
    r.connection_config[key] # "" /\ r.connection_config[key] = value

GetConnectionById(id) == {r \in rows : r.id = id /\ ~r.deleted}

GetConnection(k) == {r \in rows : KeyOf(r) = k /\ ~r.deleted}

GetMetadata(k) == {r \in rows : KeyOf(r) = k /\ ~r.deleted}

GetConnectionConfig(k) == {r \in rows : KeyOf(r) = k /\ ~r.deleted}

GetConnectionsByEnvironmentAndConfig(environment_id, providerConfigKey) ==
    {r \in rows : /\ r.environment_id = environment_id
                  /\ r.provider_config_key = providerConfigKey
                  /\ ~r.deleted}

\* connectionId = "" when the optional argument is left out
ListConnections(environment_id, connectionId) ==
    {r \in rows : /\ r.environment_id = environment_id
                  /\ ~r.deleted
                  /\ (connectionId # "" => r.connection_id = connectionId)}

FindConnectionsByConnectionConfigValue(key, value, environmentId) ==
    {r \in rows : /\ r.environment_id = environmentId
                  /\ ConfigMatches(r, key, value) /\ ~r.deleted}

\* keyValuePairs: a function from the keys of the filter object to their values;
\* one `andWhereRaw(... AND deleted = false)` per entry
FindConnectionsByMultipleConnectionConfigValues(keyValuePairs, environmentId) ==
    {r \in rows : /\ r.environment_id = environmentId
                  /\ \A key \in DOMAIN keyValuePairs :
                        ConfigMatches(r, key, keyValuePairs[key]) /\ ~r.deleted}

ConfigValues == {"v", "x"}

KeyValueFilters == UNION {[S -> ConfigValues] : S \in SUBSET ConfigKeys}

----------------------------------------------------------------------------
(* Refresh Coordinator: ConnectionService.getConnectionCredentials and      *)
(* refreshCredentialsIfNeeded, run by concurrent callers                    *)

Callers == {"p1", "p2", "p3"}

\* const ttlInMs = 10000
TtlInMs == 10000
\* an acquisition timeout shorter than the TTL
AcquisitionTimeoutMs_Short == (TtlInMs * 8) \div 10
\* const acquitistionTimeoutMs = ttlInMs * 1.2
AcquisitionTimeoutMs == (TtlInMs * 12) \div 10
\* template.token_expiration_buffer || 15 * 60
DefaultExpirationBufferSec == 900

\* granularity and horizon of the clock
TickMs == 5000
MaxTime == 12000

\* the connection the callers ask for
RefreshKey == [connection_id |-> "c1", provider_config_key |-> "gh", environment_id |-> 1]

\* isTokenExpired(expireDate, bufferInSeconds)
IsTokenExpired(expires_at, bufferSec, nowMs) == expires_at - nowMs < bufferSec * 1000

\* shouldRefreshCredentials, were the refresh token not looked at
ShouldRefreshCredentials_AnyToken(credentials, template, provider, instantRefresh, introspected, nowMs) ==
    \/ instantRefresh \/ introspected
    \/ (credentials.expires_at # 0
        /\ IsTokenExpired(credentials.expires_at,
                          IF template.token_expiration_buffer # 0
                          THEN template.token_expiration_buffer
                          ELSE DefaultExpirationBufferSec, nowMs))

\* ConnectionService.shouldRefreshCredentials.  introspected stands for
\* shouldIntrospectToken(provider) && introspectedTokenExpired(...)
ShouldRefreshCredentials(credentials, template, provider, instantRefresh, introspected, nowMs) ==
    LET refreshCondition == instantRefresh \/ introspected
        buffer == IF template.token_expiration_buffer # 0
                  THEN template.token_expiration_buffer ELSE DefaultExpirationBufferSec
        tokenExpirationCondition ==
            \/ refreshCondition
            \/ (credentials.expires_at # 0 /\ IsTokenExpired(credentials.expires_at, buffer, nowMs))
    IN  IF (template.auth_mode = OAuth2 \/ credentials.type = OAuth2) /\ provider # "facebook"
        THEN credentials.refresh_token # "" /\ tokenExpirationCondition
        ELSE tokenExpirationCondition

\* the template and provider of the integration "gh"
RefreshTemplate == [auth_mode |-> OAuth2, token_expiration_buffer |-> 0]
RefreshProvider == "github"

\* configService.getTemplate(config.provider) for the integration a connection
\* belongs to: its auth_mode is the mode the connection was created in
TemplateOf(connection) ==
    [RefreshTemplate EXCEPT !.auth_mode = connection.credentials.type]

\* what the provider issues on the n-th refresh
AccessTokens == <<"at1", "at2", "at3", "at4">>
ProviderExpiresInSec == 3600
ProviderResponse(n, refresh_token) ==
    RawResponse(AccessTokens[n], refresh_token, 0, ProviderExpiresInSec, "", "", "")

\* credentials stored when the callers arrive
StoredCredential(refresh_token, expires_at) ==
    [type |-> OAuth2, access_token |-> "at0", refresh_token |-> refresh_token,
     expires_at |-> expires_at,
     raw |-> RawResponse("at0", refresh_token, 0, ProviderExpiresInSec, "", "", "")]

StoredCredentialInputs ==
    {StoredCredential(rt, ea) : rt \in {"", "rt"}, ea \in {0, 1000, 3600000}}

\* what getJWTCredentials hands getAppCredentials and getAppStoreCredentials
JwtResponse(token, expires_at) == [token |-> token, expires_at |-> expires_at]

\* getAppCredentials
GetAppCredentials(rawCredentials) ==
    [type |-> App, access_token |-> rawCredentials.token,
     expires_at |-> rawCredentials.expires_at, raw |-> rawCredentials]

\* Buffer.from(s).toString('base64'): a private key and what repeated
\* encoding makes of it
PrivateKey == "pk"
Base64Chain ==
    <<PrivateKey, "cGs=", "Y0dzPQ==", "WTBkelBRPT0=", "V1RCa2VsQlJQVDA9",
      "VjFSQ2EyVnNRbEpRVkRBOQ==", "VmpGU1EyRXlWbk5SYkVwUlZrUkJPUT09">>
Base64Encode(s) ==
    Base64Chain[(CHOOSE i \in 1..(Len(Base64Chain) - 1) : Base64Chain[i] = s) + 1]

\* getAppStoreCredentials
GetAppStoreCredentials(rawCredentials, privateKey) ==
    [type |-> AppStore, access_token |-> rawCredentials.token,
     private_key |-> Base64Encode(privateKey),
     expires_at |-> rawCredentials.expires_at, raw |-> rawCredentials]

\* getOauthClientCredentials
GetOauthClientCredentials(data, client_id, client_secret, nowMs) ==
    [ParseRawCredentials(data, OAuth2CC, nowMs).credentials
        EXCEPT !.client_id = client_id, !.client_secret = client_secret]

\* stored credentials of each variant that carries an expiry, all of them
\* past it when the callers arrive
ExpiredAt == 1000
ExpiringCredentialInputs ==
    {StoredCredential("rt", ExpiredAt),
     [GetOauthClientCredentials(RawResponse("", "", 0, 0, "", "", "at0"), "id", "secret", 0)
        EXCEPT !.expires_at = ExpiredAt],
     GetAppCredentials(JwtResponse("at0", ExpiredAt)),
     GetAppStoreCredentials(JwtResponse("at0", ExpiredAt), PrivateKey)}

\* getNewCredentials, when the provider answers with the n-th token
GetNewCredentials(connection, template, n, nowMs) ==
    LET jwt == JwtResponse(AccessTokens[n], nowMs + ProviderExpiresInSec * 1000)
    IN  CASE template.auth_mode = OAuth2CC ->
                GetOauthClientCredentials(
                    RawResponse("", "", 0, ProviderExpiresInSec, "", "", AccessTokens[n]),
                    connection.credentials.client_id, connection.credentials.client_secret,
                    nowMs)
          [] template.auth_mode = AppStore ->
                GetAppStoreCredentials(jwt, connection.credentials.private_key)
          [] template.auth_mode = App -> GetAppCredentials(jwt)
          [] OTHER ->
                ParseRawCredentials(
                    ProviderResponse(n, connection.credentials.refresh_token),
                    OAuth2, nowMs).credentials

NoConnection == NewRow(0, RefreshKey, NoCredentials, EmptyObject, MetaNull)

NoResponse == [success |-> FALSE, error |-> "", credentials |-> NoCredentials]
Success(c) == [success |-> TRUE, error |-> "", credentials |-> c]
Failure(e) == [success |-> FALSE, error |-> e, credentials |-> NoCredentials]

storeRest == <<nextId, writes, wpc, wcall, wfound, wret, wprev, calls>>

\* Locking over the KV store: an entry that has outlived its TTL is gone
LockFree(k) == ~lock[k].held \/ now >= lock[k].expiresAt

\* what refreshCredentialsIfNeeded decides for the connection a caller loaded
NeedsRefresh(connection, instantRefresh) ==
    ShouldRefreshCredentials(connection.credentials, TemplateOf(connection), RefreshProvider,
                             instantRefresh, FALSE, now)

\* getConnectionCredentials: getConnection, then (for the credential types
\* that expire) refreshCredentialsIfNeeded up to its tryAcquire
GetConnectionCredentials(p) ==
    /\ rpc[p] = "idle"
    /\ \E instantRefresh \in BOOLEAN :
        /\ rinstant' = [rinstant EXCEPT ![p] = instantRefresh]
        /\ IF GetConnection(RefreshKey) = {}
           THEN /\ rres' = [rres EXCEPT ![p] = Failure("unknown_connection")]
                /\ rpc' = [rpc EXCEPT ![p] = "done"]
                /\ UNCHANGED <<rconn, rstart>>
           ELSE \E r \in GetConnection(RefreshKey) :
                IF r.credentials.type \in {OAuth2, App, OAuth2CC} /\ NeedsRefresh(r, instantRefresh)
                THEN /\ rconn' = [rconn EXCEPT ![p] = r]
                     /\ rstart' = [rstart EXCEPT ![p] = now]
                     /\ rpc' = [rpc EXCEPT ![p] = "acquiring"]
                     /\ UNCHANGED rres
                ELSE /\ rres' = [rres EXCEPT ![p] = Success(r.credentials)]
                     /\ rpc' = [rpc EXCEPT ![p] = "done"]
                     /\ UNCHANGED <<rconn, rstart>>
    /\ UNCHANGED <<rows, storeRest, now, lock, rcalled, issued>>

\* refreshCredentialsIfNeeded called with the stored connection, whatever
\* the type of its credentials, up to its tryAcquire
RefreshCredentialsIfNeeded(p) ==
    /\ rpc[p] = "idle"
    /\ \E instantRefresh \in BOOLEAN, r \in GetConnection(RefreshKey) :
        /\ rinstant' = [rinstant EXCEPT ![p] = instantRefresh]
        /\ IF NeedsRefresh(r, instantRefresh)
           THEN /\ rconn' = [rconn EXCEPT ![p] = r]
                /\ rstart' = [rstart EXCEPT ![p] = now]
                /\ rpc' = [rpc EXCEPT ![p] = "acquiring"]
                /\ UNCHANGED rres
           ELSE /\ rres' = [rres EXCEPT ![p] = Success(r.credentials)]
                /\ rpc' = [rpc EXCEPT ![p] = "done"]
                /\ UNCHANGED <<rconn, rstart>>
    /\ UNCHANGED <<rows, storeRest, now, lock, rcalled, issued>>

\* tryAcquire: the entry is set (with its TTL) if there is none
Acquire(p) ==
    /\ rpc[p] = "acquiring"
    /\ now - rstart[p] < AcquisitionTimeoutMs
    /\ LockFree(RefreshKey)
    /\ lock' = [lock EXCEPT ![RefreshKey] = [held |-> TRUE, expiresAt |-> now + TtlInMs]]
    /\ rpc' = [rpc EXCEPT ![p] = "critical"]
    /\ rstart' = [rstart EXCEPT ![p] = 0]
    /\ UNCHANGED <<rows, storeRest, now, rconn, rinstant, rres, rcalled, issued>>

\* tryAcquire throws after acquisitionTimeoutMs; refreshCredentialsIfNeeded
\* catches and returns refresh_token_external_error
AcquireTimeout(p) ==
    /\ rpc[p] = "acquiring"
    /\ now - rstart[p] >= AcquisitionTimeoutMs
    /\ rres' = [rres EXCEPT ![p] = Failure("refresh_token_external_error")]
    /\ rpc' = [rpc EXCEPT ![p] = "finally"]
    /\ rstart' = [rstart EXCEPT ![p] = 0]
    /\ UNCHANGED <<rows, storeRest, now, lock, rconn, rinstant, rcalled, issued>>

\* tryAcquire returns and the process of the caller crashes: its entry stays
\* in the lock store until the TTL has passed
NoOrphan == [held |-> FALSE, expiresAt |-> 0]

AcquireAndCrash(p) ==
    /\ ~orphan.held
    /\ rpc[p] = "acquiring"
    /\ now - rstart[p] < AcquisitionTimeoutMs
    /\ LockFree(RefreshKey)
    /\ lock' = [lock EXCEPT ![RefreshKey] = [held |-> TRUE, expiresAt |-> now + TtlInMs]]
    /\ orphan' = lock'[RefreshKey]
    /\ rpc' = [rpc EXCEPT ![p] = "crashed"]
    /\ rstart' = [rstart EXCEPT ![p] = 0]
    /\ UNCHANGED <<rows, storeRest, now, rconn, rinstant, rres, rcalled, issued>>

\* getNewCredentials(connection, providerConfig, template): the provider
\* answers with new credentials
GetNewCredentialsOk(p) ==
    /\ rpc[p] = "critical"
    /\ issued < Len(AccessTokens)
    /\ issued' = issued + 1
    /\ rconn' = [rconn EXCEPT ![p].credentials =
                    GetNewCredentials(rconn[p], TemplateOf(rconn[p]), issued', now)]
    /\ rcalled' = [rcalled EXCEPT ![p] = "ok"]
    /\ rpc' = [rpc EXCEPT ![p] = "fetched"]
    /\ UNCHANGED <<rows, storeRest, now, lock, rinstant, rstart, rres>>

\* getNewCredentials: the provider answers with a response that carries no
\* access token; parseRawCredentials throws, refreshCredentialsIfNeeded
\* catches and returns refresh_token_external_error
UnparsableResponse(credentials) ==
    RawResponse("", IF credentials.type = OAuth2 THEN credentials.refresh_token ELSE "",
                0, ProviderExpiresInSec, "", "", "")

GetNewCredentialsUnparsable(p) ==
    /\ rpc[p] = "critical"
    /\ TemplateOf(rconn[p]).auth_mode \in {OAuth2, OAuth2CC}
    /\ ~ParseRawCredentials(UnparsableResponse(rconn[p].credentials),
                            TemplateOf(rconn[p]).auth_mode, now).ok
    /\ rcalled' = [rcalled EXCEPT ![p] = "failed"]
    /\ rres' = [rres EXCEPT ![p] = Failure("refresh_token_external_error")]
    /\ rpc' = [rpc EXCEPT ![p] = "finally"]
    /\ UNCHANGED <<rows, storeRest, now, lock, rconn, rinstant, rstart, issued>>

\* the same step, were the stored credentials handed back on failure
GetNewCredentialsFails_Stale(p) ==
    /\ rpc[p] = "critical"
    /\ rcalled' = [rcalled EXCEPT ![p] = "failed"]
    /\ rres' = [rres EXCEPT ![p] = Success(rconn[p].credentials)]
    /\ rpc' = [rpc EXCEPT ![p] = "finally"]
    /\ UNCHANGED <<rows, storeRest, now, lock, rconn, rinstant, rstart, issued>>

\* getNewCredentials returns success: false, or throws
GetNewCredentialsFails(p) ==
    /\ rpc[p] = "critical"
    /\ rcalled' = [rcalled EXCEPT ![p] = "failed"]
    /\ \E e \in {"refresh_token_fail", "refresh_token_external_error"} :
        rres' = [rres EXCEPT ![p] = Failure(e)]
    /\ rpc' = [rpc EXCEPT ![p] = "finally"]
    /\ UNCHANGED <<rows, storeRest, now, lock, rconn, rinstant, rstart, issued>>

\* the same step, were the credentials written to the row of the natural key
\* whether or not it is deleted
UpdateConnection_AnyRow(p) ==
    /\ rpc[p] = "fetched"
    /\ rows' = {IF KeyOf(r) = KeyOf(rconn[p])
                THEN [r EXCEPT !.credentials = rconn[p].credentials] ELSE r : r \in rows}
    /\ rres' = [rres EXCEPT ![p] = Success(rconn[p].credentials)]
    /\ rpc' = [rpc EXCEPT ![p] = "finally"]
    /\ UNCHANGED <<storeRest, now, lock, rconn, rinstant, rstart, rcalled, issued>>

\* connection.credentials = newCredentials; await this.updateConnection(connection)
UpdateConnection(p) ==
    /\ rpc[p] = "fetched"
    /\ rows' = UpdateByKey(KeyOf(rconn[p]), LAMBDA r : rconn[p])
    /\ rres' = [rres EXCEPT ![p] = Success(rconn[p].credentials)]
    /\ rpc' = [rpc EXCEPT ![p] = "finally"]
    /\ UNCHANGED <<storeRest, now, lock, rconn, rinstant, rstart, rcalled, issued>>

\* writes of other operations to the row while the callers refresh
MaxFrameWrites == 1

\* some caller has made its provider call and not yet written the row
RefreshInFlight == \E p \in Callers : rpc[p] = "fetched"

\* replaceMetadata(connection, metadata), called by another operation while
\* a refresh is in flight: UPDATE ... SET metadata WHERE id AND deleted = false
ReplaceMetadata ==
    /\ RefreshInFlight /\ calls < MaxFrameWrites
    /\ \E r \in GetConnection(RefreshKey), metadata \in MetadataInputs \ {MetaNull} :
        /\ r.metadata # metadata
        /\ rows' = UpdateById(r.id, LAMBDA row : [row EXCEPT !.metadata = metadata])
    /\ calls' = calls + 1
    /\ UNCHANGED <<nextId, writes, wpc, wcall, wfound, wret, wprev, refreshVars>>

\* replaceConnectionConfig(connection, config), likewise
ReplaceConnectionConfig ==
    /\ RefreshInFlight /\ calls < MaxFrameWrites
    /\ \E r \in GetConnection(RefreshKey), config \in ConfigInputs :
        /\ r.connection_config # config
        /\ rows' = UpdateById(r.id, LAMBDA row : [row EXCEPT !.connection_config = config])
    /\ calls' = calls + 1
    /\ UNCHANGED <<nextId, writes, wpc, wcall, wfound, wret, wprev, refreshVars>>

\* calls of deleteConnection while the callers refresh
MaxDeletes == 1

\* deleteConnection(connection, providerConfigKey, environment_id) for the
\* connection the callers refresh
DeleteStoredConnection ==
    /\ calls < MaxDeletes
    /\ rows' = UpdateByKey(RefreshKey, SoftDeleted)
    /\ calls' = calls + 1
    /\ UNCHANGED <<nextId, writes, wpc, wcall, wfound, wret, wprev, refreshVars>>

\* the same step, were the lock entry left in place
Release_Kept(p) ==
    /\ rpc[p] = "finally"
    /\ rpc' = [rpc EXCEPT ![p] = "done"]
    /\ rconn' = [rconn EXCEPT ![p] = NoConnection]
    /\ UNCHANGED <<rows, storeRest, now, lock, rinstant, rstart, rres, rcalled, issued>>

\* finally { this.locking.release(lockKey) }: the entry is deleted
Release(p) ==
    /\ rpc[p] = "finally"
    /\ lock' = [lock EXCEPT ![RefreshKey] = [held |-> FALSE, expiresAt |-> 0]]
    /\ rpc' = [rpc EXCEPT ![p] = "done"]
    /\ rconn' = [rconn EXCEPT ![p] = NoConnection]
    /\ UNCHANGED <<rows, storeRest, now, rinstant, rstart, rres, rcalled, issued>>

\* getConnectionCredentials, after refreshCredentialsIfNeeded has returned res
\* for the connection it loaded: `response: null` is NoConnection
GetConnectionCredentialsReturn(connection, res) ==
    IF ~res.success
    THEN [success |-> FALSE, error |-> res.error, response |-> NoConnection]
    ELSE [success |-> TRUE, error |-> "",
          response |-> [connection EXCEPT !.credentials = res.credentials]]

\* the instants after now at which something times out
Deadlines ==
    {lock[k].expiresAt : k \in {j \in NaturalKeys : lock[j].held}}
    \cup {rstart[p] + AcquisitionTimeoutMs : p \in {q \in Callers : rpc[q] = "acquiring"}}

NextInstant ==
    LET later == {t \in Deadlines \cup {now + TickMs} : t > now}
    IN  CHOOSE t \in later : \A u \in later : t <= u

\* time passes, up to the next instant; a caller polling in tryAcquire takes
\* a free lock before it does
Tick ==
    /\ NextInstant <= MaxTime
    /\ ~(LockFree(RefreshKey) /\ \E p \in Callers :
            rpc[p] = "acquiring" /\ now - rstart[p] < AcquisitionTimeoutMs)
    /\ now' = NextInstant
    /\ UNCHANGED <<rows, storeRest, lock, rpc, rconn, rinstant, rstart, rres, rcalled, issued>>

RefreshIdle ==
    /\ now = 0
    /\ lock = [k \in NaturalKeys |-> [held |-> FALSE, expiresAt |-> 0]]
    /\ rpc = [p \in Callers |-> "idle"]
    /\ rconn = [p \in Callers |-> NoConnection]
    /\ rinstant = [p \in Callers |-> FALSE]
    /\ rstart = [p \in Callers |-> 0]
    /\ rres = [p \in Callers |-> NoResponse]
    /\ rcalled = [p \in Callers |-> "no"]
    /\ issued = 0

StoredWith(inputs) ==
    /\ \E c \in inputs :
        rows = {NewRow(1, RefreshKey, c, EmptyObject, MetaNull)}
    /\ nextId = 2
    /\ writes = [k \in NaturalKeys |-> 0]
    /\ wpc = [w \in Workers |-> "idle"]
    /\ wcall = [w \in Workers |-> NoCall]
    /\ wfound = [w \in Workers |-> NotFound]
    /\ wret = [w \in Workers |-> NoReturn]
    /\ wprev = [w \in Workers |-> NoReturn]
    /\ calls = 0
    /\ RefreshIdle

RefreshInit == StoredWith(StoredCredentialInputs)

\* the callers find a connection of any variant that carries an expiry
ReadInit == StoredWith(ExpiringCredentialInputs)

----------------------------------------------------------------------------
(* Refresh Coordinator: one call of refreshCredentialsIfNeeded with every   *)
(* combination of arguments, up to the point where it either returns the    *)
(* credentials it was given or has taken the lock                           *)

\* a token_expiration_buffer a template sets, in seconds
ShortBufferSec == 60

\* templates, and the credentials a connection of such a template holds
DecisionTemplates ==
    [auth_mode : {OAuth2, Custom, App, OAuth2CC},
     token_expiration_buffer : {0, ShortBufferSec}]

\* expires_at: not set, inside and at the edge of either buffer, far away
ExpiryInputs ==
    {0, ShortBufferSec * 500, ShortBufferSec * 1000,
     DefaultExpirationBufferSec * 500, DefaultExpirationBufferSec * 1000, 3600000}

DecisionCredentials(auth_mode) ==
    LET oauth2 == {StoredCredential(rt, ea) : rt \in {"", "rt"}, ea \in ExpiryInputs}
        app == {GetAppCredentials(JwtResponse("at0", ea)) : ea \in ExpiryInputs}
        cc == {[GetOauthClientCredentials(RawResponse("", "", 0, 0, "", "", "at0"),
                                          "id", "secret", 0)
                    EXCEPT !.expires_at = ea] : ea \in ExpiryInputs}
    IN  CASE auth_mode = OAuth2 -> oauth2
          [] auth_mode = Custom -> oauth2 \cup app
          [] auth_mode = App -> app
          [] OTHER -> cc

NoDecision ==
    [step |-> "none", credentials |-> NoCredentials, template |-> RefreshTemplate,
     provider |-> "", instantRefresh |-> FALSE, introspected |-> FALSE,
     shouldRefresh |-> FALSE, response |-> NoResponse]

\* const shouldRefresh = await this.shouldRefreshCredentials(...)
ShouldRefresh ==
    /\ decision.step = "called"
    /\ decision' = [decision EXCEPT !.step = "decided",
                          !.shouldRefresh =
                              ShouldRefreshCredentials(decision.credentials, decision.template, decision.provider,
                                                       decision.instantRefresh, decision.introspected, now)]
    /\ UNCHANGED lock

\* if (shouldRefresh) { ... await this.locking.tryAcquire(lockKey, ttlInMs, acquitistionTimeoutMs)
TryAcquire ==
    /\ decision.step = "decided" /\ decision.shouldRefresh
    /\ LockFree(RefreshKey)
    /\ lock' = [lock EXCEPT ![RefreshKey] = [held |-> TRUE, expiresAt |-> now + TtlInMs]]
    /\ decision' = [decision EXCEPT !.step = "acquired"]

\* return { success: true, error: null, response: credentials }
ReturnCredentials ==
    /\ decision.step = "decided" /\ ~decision.shouldRefresh
    /\ decision' = [decision EXCEPT !.step = "returned", !.response = Success(decision.credentials)]
    /\ UNCHANGED lock

\* no connectionConfig is being built
NoMerge == [step |-> "idle"]

DecisionIdle == decision = NoDecision /\ orphan = NoOrphan /\ merge = NoMerge

DecisionInit ==
    /\ orphan = NoOrphan
    /\ merge = NoMerge
    /\ \E t \in DecisionTemplates, provider \in {"github", "facebook"},
          instantRefresh \in BOOLEAN, introspected \in BOOLEAN :
        \E c \in DecisionCredentials(t.auth_mode) :
            decision = [NoDecision EXCEPT !.step = "called", !.credentials = c, !.template = t,
                                          !.provider = provider,
                                          !.instantRefresh = instantRefresh,
                                          !.introspected = introspected]

----------------------------------------------------------------------------
(* Authorization state machine: the session store and oauthRequest *)

MaxRequests == 2

\* uuid.v1(): a fresh id per session object
SessionIds == <<"s1", "s2", "s3", "s4">>

\* crypto.randomBytes(24).toString('hex'): a fresh verifier per session object
CodeVerifiers == <<"cv1", "cv2", "cv3", "cv4">>

\* oAuth1Client.getOAuthRequestToken(): the secret of the request token the
\* provider issued, a fresh one per call
RequestTokenSecrets == <<"rts1", "rts2", "rts3", "rts4">>

\* req.query['ws_client_id']: the channel of the client that opened the flow
Channels == <<"ws1", "ws2", "ws3", "ws4">>

\* sha256, base64, then '+' -> '-', '/' -> '_', trailing '=' removed: a
\* digest of the verifier, different for different verifiers and never the
\* verifier itself
Sha256Base64Url(codeVerifier) ==
    CASE codeVerifier = "cv1" -> "ch1"
      [] codeVerifier = "cv2" -> "ch2"
      [] codeVerifier = "cv3" -> "ch3"
      [] OTHER -> "ch4"

\* query parameters of the authorization URL that the model follows; an
\* absent key is "", a key whose value is the JavaScript undefined is Undefined
ParamKeys == {"state", "code_challenge", "code_challenge_method", "prompt", "user_scope"}
Undefined == "undefined"
NoParams == [k \in ParamKeys |-> ""]

\* { ...a, ...b }: the keys of b, whatever their value, replace those of a
Spread(a, b) == [k \in ParamKeys |-> IF b[k] # "" THEN b[k] ELSE a[k]]

\* Object.keys(p).forEach(key => p[key] === undefined ? delete p[key] : {})
RemoveUndefined(p) == [k \in ParamKeys |-> IF p[k] = Undefined THEN "" ELSE p[k]]

\* authorization_params of the request: none, or one key, set to a value or
\* to undefined
AuthorizationParamInputs ==
    {NoParams} \cup {[NoParams EXCEPT ![k] = v] : k \in ParamKeys, v \in {"x", Undefined}}

\* authorization_params of the provider template
TemplateParamInputs == {NoParams, [NoParams EXCEPT !["prompt"] = "consent"]}

\* the templates configService holds whose authorization_params are defined:
\* one per provider and setting of disable_pkce, each configured with
\* `prompt: consent`
Providers == {"github", "slack"}
TemplateIds == Providers \X BOOLEAN
ConfiguredTemplates == [t \in TemplateIds |-> [NoParams EXCEPT !["prompt"] = "consent"]]

ApiKey == "API_KEY"

\* the fields of the stored ProviderConfig that the flow reads ("": null)
StoredProviderConfig ==
    [oauth_client_id |-> "id0", oauth_client_secret |-> "secret0", oauth_scopes |-> "scope0"]
NullProviderConfig ==
    [oauth_client_id |-> "", oauth_client_secret |-> "", oauth_scopes |-> ""]

\* what one call of oauthRequest is given: the query, the integration found
\* for providerConfigKey, its provider template, and the failures of the
\* services it awaits
BaseRequest ==
    [connection_id |-> "c1", provider_config_key |-> "gh", hmac |-> "ok", config |-> "ok",
     auth_mode |-> OAuth2, provider |-> "github", user_scope |-> "",
     stored |-> StoredProviderConfig,
     client_id_override |-> "", client_secret_override |-> "", scopes_override |-> "",
     disable_pkce |-> FALSE, grant_type |-> "", misses |-> "",
     authorization_params |-> NoParams, template_params |-> NoParams,
     token_fails |-> FALSE, fault |-> "none"]

RedirectingModes == {OAuth2, App, Custom, OAuth1}
Faults == {"none", "create", "log"}

\* every way the checks before the dispatch fail, every combination of PKCE,
\* template and request parameters of an OAuth2 request, and every failure of
\* each of the three flows
Requests ==
    {[BaseRequest EXCEPT !.connection_id = ""]}
    \cup {[BaseRequest EXCEPT !.provider_config_key = ""]}
    \cup {[BaseRequest EXCEPT !.hmac = h] : h \in {"missing", "invalid"}}
    \cup {[BaseRequest EXCEPT !.config = "none"]}
    \cup {[BaseRequest EXCEPT !.auth_mode = m] : m \in {"", ApiKey}}
    \cup {[BaseRequest EXCEPT !.config = "invalid", !.auth_mode = m] : m \in RedirectingModes}
    \cup {[BaseRequest EXCEPT !.disable_pkce = d, !.authorization_params = a,
                              !.template_params = t] :
            d \in BOOLEAN, a \in AuthorizationParamInputs, t \in TemplateParamInputs}
    \cup {[BaseRequest EXCEPT !.provider = pr, !.user_scope = "us", !.template_params = t] :
            pr \in Providers, t \in TemplateParamInputs}
    \cup {[BaseRequest EXCEPT !.provider = "slack", !.template_params = t] :
            t \in TemplateParamInputs}
    \cup {[BaseRequest EXCEPT !.grant_type = g] : g \in {"authorization_code", "client_credentials"}}
    \cup {[BaseRequest EXCEPT !.auth_mode = m, !.misses = u] :
            m \in {OAuth2, App, Custom}, u \in {"authorization_url", "token_url"}}
    \cup {[BaseRequest EXCEPT !.auth_mode = OAuth1, !.token_fails = TRUE]}
    \cup {[BaseRequest EXCEPT !.auth_mode = m, !.fault = f] : m \in RedirectingModes, f \in Faults}

\* requests that carry overrides of the client id, the client secret
\* (req.query['credentials']) and the scopes (req.query['params']), for the
\* modes whose callback exchanges a code
OverrideRequests ==
    {[BaseRequest EXCEPT !.auth_mode = m, !.client_id_override = i,
                         !.client_secret_override = c, !.scopes_override = o] :
        m \in {OAuth2, Custom}, i \in {"", "id1"}, c \in {"", "secret1"}, o \in {"", "scope1"}}

\* ProviderAuthModes.None
NoneMode == "NONE"

\* stored configs with every field, with one field missing, and with none
PartialConfigs ==
    {StoredProviderConfig, NullProviderConfig,
     [StoredProviderConfig EXCEPT !.oauth_client_id = ""],
     [StoredProviderConfig EXCEPT !.oauth_client_secret = ""],
     [StoredProviderConfig EXCEPT !.oauth_scopes = ""]}

\* requests that pass the checks before the provider config is validated,
\* for complete and incomplete stored configs, with and without overrides
ConfigRequests ==
    {[BaseRequest EXCEPT !.auth_mode = m, !.stored = c, !.client_id_override = i,
                         !.scopes_override = o] :
        m \in {OAuth2, App, NoneMode}, c \in PartialConfigs,
        i \in {"", "id1"}, o \in {"", "scope1"}}

\* the config getProviderConfig returned: an integration that is not set up
\* lacks client id, client secret and scopes
LoadedConfig(q) == IF q.config = "invalid" THEN NullProviderConfig ELSE q.stored

\* the live config object after the overrides of the request are written to it
LiveConfig(q) ==
    [oauth_client_id |->
        IF q.client_id_override # "" THEN q.client_id_override
        ELSE LoadedConfig(q).oauth_client_id,
     oauth_client_secret |->
        IF q.client_secret_override # "" THEN q.client_secret_override
        ELSE LoadedConfig(q).oauth_client_secret,
     oauth_scopes |->
        IF q.scopes_override # "" THEN q.scopes_override ELSE LoadedConfig(q).oauth_scopes]

\* config.oauth_client_id == null || config.oauth_client_secret == null || config.oauth_scopes == null
LacksField(config) ==
    config.oauth_client_id = "" \/ config.oauth_client_secret = "" \/ config.oauth_scopes = ""

\* session.connectionConfig when the session is persisted, as far as the
\* callback reads it: the params of the request with the overrides added;
\* appRequest replaces it by { ...authorizationParams, appPublicLink }
NoSessionConfig ==
    [oauth_client_id_override |-> "", oauth_client_secret_override |-> "",
     oauth_scopes_override |-> "", oauth_scopes |-> ""]

SessionConnectionConfig(q) ==
    IF q.auth_mode \in {App, Custom} THEN NoSessionConfig
    ELSE [NoSessionConfig EXCEPT !.oauth_client_id_override = q.client_id_override,
                                 !.oauth_client_secret_override = q.client_secret_override,
                                 !.oauth_scopes_override = q.scopes_override]

\* session.requestTokenSecret = tokenResult.request_token_secret, which only
\* oauth1Request sets, once the request-token call has returned
RequestTokenSecret(q, n) ==
    IF q.auth_mode = OAuth1 /\ ~q.token_fails THEN RequestTokenSecrets[n] ELSE ""

NewSession(q, n) ==
    [id |-> SessionIds[n], authMode |-> q.auth_mode, connectionId |-> q.connection_id,
     codeVerifier |-> CodeVerifiers[n], webSocketClientId |-> Channels[n],
     connectionConfig |-> SessionConnectionConfig(q),
     requestTokenSecret |-> RequestTokenSecret(q, n)]

\* how a call of oauthRequest ended: the request it served, what it sent (a
\* redirect to url, an error notification, or nothing because its promise
\* rejected), the session it left in the session store ("": none), and
\* whether it loaded the provider config
NoOutcome ==
    [kind |-> "none", error |-> "", url |-> NoParams, session |-> "",
     codeVerifier |-> "", authMode |-> "", pkce |-> FALSE,
     request |-> BaseRequest, loaded |-> FALSE]

\* publisher.notifyErr(res, channel, providerConfigKey, connectionId, error)
NotifyErr(error, q, persisted) ==
    [NoOutcome EXCEPT !.kind = "notifyErr", !.error = error, !.authMode = q.auth_mode,
                      !.session = persisted, !.request = q]

\* the promise oauthRequest returned rejects outside every try block
Rejected(q, persisted) ==
    [NoOutcome EXCEPT !.kind = "rejected", !.authMode = q.auth_mode, !.session = persisted,
                      !.request = q]

\* res.redirect(authorizationUri)
Redirect(url, q, session) ==
    [NoOutcome EXCEPT !.kind = "redirect", !.url = url, !.session = session.id,
                      !.codeVerifier = session.codeVerifier, !.authMode = q.auth_mode,
                      !.pkce = (q.auth_mode = OAuth2 /\ ~q.disable_pkce), !.request = q]

\* configService.getTemplate(config.provider): the template the service
\* holds, not a copy of it
TemplateId(q) == <<q.provider, q.disable_pkce>>

\* oauth2Template.authorization_params || {}: the template's own object when
\* it defines one, a new object otherwise
TemplateParams(q) ==
    IF q.template_params = NoParams THEN NoParams ELSE templates[TemplateId(q)]

\* if (!template.disable_pkce) { allAuthParams['code_challenge'] = h; ... }
PkceParams(params, q, session) ==
    IF ~q.disable_pkce
    THEN [params EXCEPT !["code_challenge"] = Sha256Base64Url(session.codeVerifier),
                        !["code_challenge_method"] = "S256"]
    ELSE params

\* if (providerConfig.provider === 'slack' && userScope) { allAuthParams['user_scope'] = userScope }
UserScopeParams(params, q, session) ==
    IF q.provider = "slack" /\ q.user_scope # ""
    THEN [PkceParams(params, q, session) EXCEPT !["user_scope"] = q.user_scope]
    ELSE PkceParams(params, q, session)

\* allAuthParams after the request's authorization_params are spread over it
\* and the undefined values removed
AllAuthParams(params, q, session) ==
    RemoveUndefined(Spread(UserScopeParams(params, q, session), q.authorization_params))

\* simpleOAuthClient.authorizeURL({ redirect_uri, scope, state: session.id, ...allAuthParams })
AuthorizeURL(params, q, session) ==
    Spread([NoParams EXCEPT !["state"] = session.id], AllAuthParams(params, q, session))

\* q.misses names the url of the template with a placeholder that the
\* connection config does not resolve ("": none); oauth2Request looks at
\* authorization_url and token_url
Oauth2Request(q, session) ==
    IF q.misses \in {"authorization_url", "token_url"} THEN NotifyErr("InvalidConnectionConfig", q, "")
    ELSE IF q.grant_type \in {"", "authorization_code"}
    THEN CASE q.fault = "create" -> NotifyErr("UnknownError", q, "")
           [] q.fault = "log" -> NotifyErr("UnknownError", q, session.id)
           [] OTHER -> Redirect(AuthorizeURL(TemplateParams(q), q, session), q, session)
    ELSE NotifyErr("UnknownGrantType", q, "")

\* `${appUrl}?${new URLSearchParams({ state: session.id })}`; appRequest
\* looks at authorization_url only
AppRequest(q, session) ==
    IF q.misses = "authorization_url" THEN NotifyErr("InvalidConnectionConfig", q, "")
    ELSE CASE q.fault = "create" -> NotifyErr("UnknownError", q, "")
           [] q.fault = "log" -> NotifyErr("UnknownError", q, session.id)
           [] OTHER -> Redirect([NoParams EXCEPT !["state"] = session.id], q, session)

\* the state travels in the callback URL registered with the request token;
\* oauthRequest returns oauth1Request's promise without awaiting it, so a
\* rejection after the request-token try block is caught by nobody
Oauth1Request_FailureIgnored(q, session) ==
    CASE q.fault = "create" -> Rejected(q, "")
      [] q.fault = "log" -> Rejected(q, session.id)
      [] OTHER -> Redirect([NoParams EXCEPT !["state"] = session.id], q, session)

Oauth1Request(q, session) ==
    IF q.token_fails THEN NotifyErr("TokenError", q, "")
    ELSE CASE q.fault = "create" -> Rejected(q, "")
           [] q.fault = "log" -> Rejected(q, session.id)
           [] OTHER -> Redirect([NoParams EXCEPT !["state"] = session.id], q, session)

\* the request gets as far as building the session object
BuildsSession(q) ==
    /\ q.connection_id # "" /\ q.provider_config_key # "" /\ q.hmac = "ok"
    /\ q.config # "none" /\ q.auth_mode # ""

\* oauthRequest from `await configService.getProviderConfig(...)` on
WithProviderConfig(q, session) ==
    IF q.config = "none" THEN NotifyErr("UnknownProviderConfigKey", q, "")
    ELSE IF q.auth_mode = "" THEN NotifyErr("UnknownProviderTemplate", q, "")
    ELSE IF q.auth_mode # App /\ LacksField(LiveConfig(q))
         THEN NotifyErr("InvalidProviderConfig", q, "")
    ELSE IF q.auth_mode = OAuth2 THEN Oauth2Request(q, session)
    ELSE IF q.auth_mode \in {App, Custom} THEN AppRequest(q, session)
    ELSE IF q.auth_mode = OAuth1 THEN Oauth1Request(q, session)
    ELSE NotifyErr("UnknownAuthMode", q, "")

\* oauthRequest, were the hmac of the request not looked at
OauthRequestOutcome_NoHmac(q, session) ==
    IF q.connection_id = "" THEN NotifyErr("MissingConnectionId", q, "")
    ELSE IF q.provider_config_key = "" THEN NotifyErr("MissingProviderConfigKey", q, "")
    ELSE [WithProviderConfig(q, session) EXCEPT !.loaded = TRUE]

OauthRequestOutcome(q, session) ==
    IF q.connection_id = "" THEN NotifyErr("MissingConnectionId", q, "")
    ELSE IF q.provider_config_key = "" THEN NotifyErr("MissingProviderConfigKey", q, "")
    ELSE IF q.hmac = "missing" THEN NotifyErr("MissingHmac", q, "")
    ELSE IF q.hmac = "invalid" THEN NotifyErr("InvalidHmac", q, "")
    ELSE [WithProviderConfig(q, session) EXCEPT !.loaded = TRUE]

\* the request gets as far as `let allAuthParams = ...` of oauth2Request
ReachesAuthParams(q) ==
    /\ BuildsSession(q) /\ ~LacksField(LiveConfig(q)) /\ q.auth_mode = OAuth2
    /\ q.misses = "" /\ q.grant_type \in {"", "authorization_code"}

\* what oauthRequest(q) leaves in the templates: allAuthParams is the
\* template's own authorization_params until it is reassigned, so the keys
\* set before that are set in the template
TemplatesAfter(q, session) ==
    IF ReachesAuthParams(q) /\ q.template_params # NoParams
    THEN [templates EXCEPT ![TemplateId(q)] = UserScopeParams(TemplateParams(q), q, session)]
    ELSE templates
----------------------------------------------------------------------------
(* Authorization state machine: oauthCallback.  Each handler serves one     *)
(* callback request; findById, delete and the two statements of             *)
(* upsertConnection are separate steps.                                     *)

Handlers == {"h1", "h2"}

NoSession ==
    [id |-> "", authMode |-> "", connectionId |-> "", codeVerifier |-> "",
     webSocketClientId |-> "", connectionConfig |-> NoSessionConfig,
     requestTokenSecret |-> ""]

\* oAuthSessionService.findById
FindById(id) == {s \in sessions : s.id = id}

\* oAuthSessionService.delete
DeleteById(id) == {s \in sessions : s.id # id}

\* the query of a callback request: state, whether the provider sent what the
\* flow needs (code; oauth_token and oauth_verifier), installation_id and
\* setup_action
NoCallback == [state |-> "", granted |-> FALSE, installation_id |-> "", setup_action |-> ""]

CallbackInputs(states) ==
    [state : states, granted : BOOLEAN, installation_id : {""}, setup_action : {""}]
    \cup [state : states, granted : BOOLEAN, installation_id : {"i1"},
          setup_action : {"install", "update"}]

\* what a handler sent: nothing (it returned without answering), a redirect
\* to the referer, notifyErr or notifySuccess; a notification goes to a channel
NoAnswer == [kind |-> "none", error |-> "", pending |-> FALSE, channel |-> ""]
Answer(kind, error, pending) ==
    [kind |-> kind, error |-> error, pending |-> pending, channel |-> ""]

\* what a handler has done so far, the hooks it has fired included
NoHistory ==
    [prior |-> FALSE, exchanged |-> FALSE, parsed |-> "", writes |-> 0,
     config |-> NullProviderConfig, hooks |-> {}]

ConnectionCreated == "connectionCreatedHook"
ConnectionCreationFailed == "connectionCreationFailedHook"

\* token responses of the provider, complete and not
TokenResponses(authMode) ==
    IF authMode = OAuth1
    THEN {RawResponse("", "", 0, 0, "ot", os, "") : os \in {"", "os"}}
    ELSE {RawResponse(at, "rt", 0, ProviderExpiresInSec, "", "", "") : at \in {"", "at"}}

\* connection_config of the connection a callback stores
AuthConfigKeys == ConfigKeys \cup {"installation_id", "app_id", "pending"}
AuthConfig(installation_id, app_id, pending) ==
    [k \in AuthConfigKeys |->
        CASE k = "installation_id" -> installation_id
          [] k = "app_id" -> app_id
          [] k = "pending" -> pending
          [] OTHER -> ""]

SessionKey(session) ==
    [connection_id |-> session.connectionId, provider_config_key |-> "gh", environment_id |-> 1]

UpsertConnectionCall(session, credentials, connection_config) ==
    [name |-> "upsertConnection", key |-> SessionKey(session), credentials |-> credentials,
     connection_config |-> connection_config, metadata |-> MetaNull]

\* what oauthRequest(q) does to the session store
Persists(q) ==
    LET session == NewSession(q, nextSession + 1)
    IN  /\ sessions' = IF OauthRequestOutcome(q, session).session = "" THEN sessions
                       ELSE sessions \cup {session}
        /\ nextSession' = IF BuildsSession(q) THEN nextSession + 1 ELSE nextSession

\* oauthRequest for a request of the given set, with what it sent to the
\* client recorded in resp
OauthRequestOf(requests) ==
    /\ nextSession < MaxRequests
    /\ \E q \in requests :
        /\ Persists(q)
        /\ resp' = OauthRequestOutcome(q, NewSession(q, nextSession + 1))
        /\ templates' = TemplatesAfter(q, NewSession(q, nextSession + 1))
    /\ UNCHANGED <<rows, nextId, handlerVars>>

OauthRequest == OauthRequestOf(Requests)

\* oauthRequest for integrations whose stored config may lack fields
OauthRequestConfigs == OauthRequestOf(ConfigRequests)

\* oauthRequest with overrides of the client id, the client secret and the scopes
OauthRequestOverrides == OauthRequestOf(OverrideRequests)

\* the requests that differ in something a session holds or its creation
\* depends on: the parameters of the authorization URL are left at those of
\* BaseRequest
SessionRequests ==
    {q \in Requests : /\ q.authorization_params = NoParams /\ q.template_params = NoParams
                      /\ q.user_scope = "" /\ q.provider = "github" /\ ~q.disable_pkce}

\* oauthRequest as the callbacks see it: a session appears in the session
\* store (a callback reads neither resp nor a template's authorization_params)
OauthRequestPersists ==
    /\ nextSession < MaxRequests
    /\ \E q \in SessionRequests : BuildsSession(q) /\ Persists(q)
    /\ UNCHANGED <<rows, nextId, resp, handlerVars>>

\* the state values a callback can carry: none, or the id of a session
\* object some request has built
IssuedStates == {""} \cup {SessionIds[i] : i \in 1..nextSession}

\* a handler ends with the given answer; publisher.notifyErr and
\* notifySuccess are given `channel = session.webSocketClientId`
Ends(h, answer) ==
    /\ cout' = [cout EXCEPT ![h] =
                  IF answer.kind \in {"notifyErr", "notifySuccess"}
                  THEN [answer EXCEPT !.channel = csession[h].webSocketClientId]
                  ELSE answer]
    /\ cpc' = [cpc EXCEPT ![h] = "done"]

\* GET /oauth/callback, up to `const session = await oAuthSessionService.findById(state)`
OauthCallback(h) ==
    /\ cpc[h] = "idle"
    /\ \E c \in CallbackInputs(IssuedStates) :
        /\ creq' = [creq EXCEPT ![h] = c]
        /\ chist' = [chist EXCEPT ![h].prior =
                        /\ c.state # ""
                        /\ \E g \in Handlers \ {h} : cpc[g] = "done" /\ creq[g].state = c.state]
        /\ IF c.state = "" /\ c.installation_id # "" /\ c.setup_action # ""
           THEN Ends(h, Answer("redirect", "", FALSE)) /\ UNCHANGED csession
           ELSE IF c.state = "" \/ FindById(c.state) = {}
           THEN Ends(h, NoAnswer) /\ UNCHANGED csession
           ELSE /\ \E s \in FindById(c.state) : csession' = [csession EXCEPT ![h] = s]
                /\ cpc' = [cpc EXCEPT ![h] = "delete"]
                /\ UNCHANGED cout
    /\ UNCHANGED <<rows, nextId, sessions, nextSession, resp, ccall, cfound>>

DeleteSession_Skipped(h) ==
    /\ cpc[h] = "delete"
    /\ cpc' = [cpc EXCEPT ![h] = "dispatch"]
    /\ UNCHANGED <<rows, nextId, sessions, nextSession, resp, creq, csession, ccall, cfound,
                   cout, chist>>

\* await oAuthSessionService.delete(state)
DeleteSession(h) ==
    /\ cpc[h] = "delete"
    /\ sessions' = DeleteById(csession[h].id)
    /\ cpc' = [cpc EXCEPT ![h] = "dispatch"]
    /\ UNCHANGED <<rows, nextId, nextSession, resp, creq, csession, ccall, cfound, cout, chist>>

\* the keys an object handled by oauth2Callback can have; a key whose value
\* is "" is absent
OverrideKeys == {"oauth_client_id_override", "oauth_client_secret_override"}
MergeKeys ==
    AuthConfigKeys \cup OverrideKeys \cup {"oauth_scopes_override", "oauth_scopes", "pendingLog"}
NoKeys == [k \in MergeKeys |-> ""]
KeysOf(object) == {k \in MergeKeys : object[k] # ""}

\* an object of fewer keys as an object over MergeKeys
Widen(object) == [k \in MergeKeys |-> IF k \in DOMAIN object THEN object[k] ELSE ""]

\* { ...a, ...b } on objects over MergeKeys
SpreadConfig(a, b) == [k \in MergeKeys |-> IF b[k] # "" THEN b[k] ELSE a[k]]

\* Object.keys(session.connectionConfig).reduce(...): the keys of the
\* session's config other than `key`, each with its value in connectionConfig
ReduceWithout(sessionConfig, connectionConfig, key) ==
    [k \in MergeKeys |->
        IF k \in KeysOf(sessionConfig) /\ k # key THEN connectionConfig[k] ELSE ""]

\* 'a,b'.split(','), written as a list
SplitScopes(scopes) == "[" \o scopes \o "]"

\* the connectionConfig oauth2Callback hands upsertConnection
ConnectionConfigOf(sessionConfig, tokenMetadata, callbackMetadata, authMode, installationId) ==
    LET merged == SpreadConfig(SpreadConfig(sessionConfig, tokenMetadata), callbackMetadata)
        pending == authMode = Custom /\ merged["installation_id"] = "" /\ installationId = ""
        withPending ==
            IF pending
            THEN [merged EXCEPT !["app_id"] = "app1", !["pending"] = "true",
                                !["pendingLog"] = "log1"]
            ELSE merged
        withInstallation ==
            IF authMode = Custom /\ installationId # ""
            THEN [withPending EXCEPT !["installation_id"] = installationId]
            ELSE withPending
        withoutId ==
            IF withInstallation["oauth_client_id_override"] # ""
            THEN ReduceWithout(sessionConfig, withInstallation, "oauth_client_id_override")
            ELSE withInstallation
        withoutSecret ==
            IF withoutId["oauth_client_secret_override"] # ""
            THEN ReduceWithout(sessionConfig, withoutId, "oauth_client_secret_override")
            ELSE withoutId
    IN  IF withoutSecret["oauth_scopes_override"] # ""
        THEN [withoutSecret EXCEPT !["oauth_scopes_override"] = SplitScopes(@)]
        ELSE withoutSecret

\* connectionConfig of oauth2Callback when neither the token response nor the
\* callback request carries metadata, as far as the connection store reads
\* it: a Custom connection without an installation is pending and carries
\* the app id
CallbackConfig(session, c) ==
    LET connectionConfig ==
            ConnectionConfigOf(Widen(session.connectionConfig), NoKeys, NoKeys,
                               session.authMode, c.installation_id)
    IN  [k \in AuthConfigKeys |-> connectionConfig[k]]

\* what one oauth2Callback builds its connectionConfig from: the config of
\* the session (a Custom session carries no overrides), the metadata of the
\* token response and of the callback request, and installation_id
MergeObject(k1, k2) == [NoKeys EXCEPT !["k1"] = k1, !["k2"] = k2]

MergeInputs ==
    [step : {"called"}, authMode : {OAuth2},
     sessionConfig : {[MergeObject(k1, "") EXCEPT !["oauth_client_id_override"] = id,
                                                 !["oauth_client_secret_override"] = secret,
                                                 !["oauth_scopes_override"] = scopes] :
                        k1 \in {"", "s1"}, id \in {"", "id1"}, secret \in {"", "secret1"},
                        scopes \in {"", "a,b"}},
     tokenMetadata : {MergeObject(k1, k2) : k1 \in {"", "t1"}, k2 \in {"", "t2"}},
     callbackMetadata : {MergeObject(k1, "") : k1 \in {"", "c1"}},
     installationId : {""}, connection_config : {NoKeys}]
    \cup
    [step : {"called"}, authMode : {Custom},
     sessionConfig : {MergeObject(k1, "") : k1 \in {"", "s1"}},
     tokenMetadata : {MergeObject(k1, k2) : k1 \in {"", "t1"}, k2 \in {"", "t2"}},
     callbackMetadata : {MergeObject(k1, "") : k1 \in {"", "c1"}},
     installationId : {"", "i1"}, connection_config : {NoKeys}]

MergeInit == merge \in MergeInputs

\* oauth2Callback from `let connectionConfig = { ...session.connectionConfig,
\* ...tokenMetadata, ...callbackMetadata }` to its upsertConnection
BuildConnectionConfig ==
    /\ merge.step = "called"
    /\ merge' = [merge EXCEPT !.step = "stored",
                              !.connection_config =
                                ConnectionConfigOf(merge.sessionConfig, merge.tokenMetadata,
                                                   merge.callbackMetadata, merge.authMode,
                                                   merge.installationId)]
    /\ UNCHANGED <<storeVars, refreshVars, authVars, encVars, orphan, decision>>

\* the config oauth2Callback hands the token exchange: the stored config with
\* the overrides it finds in session.connectionConfig (oauth1Callback uses
\* the stored config)
CallbackProviderConfig(session) ==
    IF session.authMode \notin {OAuth2, Custom} THEN StoredProviderConfig
    ELSE [oauth_client_id |->
            IF session.connectionConfig.oauth_client_id_override # ""
            THEN session.connectionConfig.oauth_client_id_override
            ELSE StoredProviderConfig.oauth_client_id,
          oauth_client_secret |->
            IF session.connectionConfig.oauth_client_secret_override # ""
            THEN session.connectionConfig.oauth_client_secret_override
            ELSE StoredProviderConfig.oauth_client_secret,
          oauth_scopes |->
            IF session.connectionConfig.oauth_scopes # ""
            THEN session.connectionConfig.oauth_scopes
            ELSE StoredProviderConfig.oauth_scopes]

\* the token exchange answered with raw: parseRawCredentials, then
\* upsertConnection up to its checkIfConnectionExists
ParseAndLookUp(h, raw, authMode, connection_config) ==
    LET parsed == ParseRawCredentials(raw, authMode, now)
    IN  IF ~parsed.ok
        THEN /\ chist' = [chist EXCEPT ![h].exchanged = TRUE, ![h].parsed = "threw",
                                        ![h].config = CallbackProviderConfig(csession[h]),
                                        ![h].hooks = @ \cup {ConnectionCreationFailed}]
             /\ Ends(h, Answer("notifyErr", "UnknownError", FALSE))
             /\ UNCHANGED <<ccall, cfound>>
        ELSE /\ chist' = [chist EXCEPT ![h].exchanged = TRUE, ![h].parsed = "ok",
                                        ![h].config = CallbackProviderConfig(csession[h])]
             /\ ccall' = [ccall EXCEPT ![h] =
                            UpsertConnectionCall(csession[h], parsed.credentials, connection_config)]
             /\ \E f \in CheckIfConnectionExists(SessionKey(csession[h])) :
                    cfound' = [cfound EXCEPT ![h] = f]
             /\ cpc' = [cpc EXCEPT ![h] = "write"]
             /\ UNCHANGED cout

\* the token exchange threw, were the error swallowed
ExchangeThrows_Silent(h) ==
    /\ chist' = [chist EXCEPT ![h].exchanged = TRUE,
                               ![h].config = CallbackProviderConfig(csession[h])]
    /\ Ends(h, NoAnswer)
    /\ UNCHANGED <<ccall, cfound>>

\* the token exchange threw: the catch block fires connectionCreationFailedHook
\* and notifies UnknownError
ExchangeThrows(h) ==
    /\ chist' = [chist EXCEPT ![h].exchanged = TRUE,
                               ![h].config = CallbackProviderConfig(csession[h]),
                               ![h].hooks = @ \cup {ConnectionCreationFailed}]
    /\ Ends(h, Answer("notifyErr", "UnknownError", FALSE))
    /\ UNCHANGED <<ccall, cfound>>

Oauth2Callback(h) ==
    /\ cpc[h] = "dispatch"
    /\ csession[h].authMode \in {OAuth2, Custom}
    /\ IF ~creq[h].granted
       THEN /\ Ends(h, Answer("notifyErr", "InvalidCallbackOAuth2", FALSE))
            /\ chist' = [chist EXCEPT ![h].hooks = @ \cup {ConnectionCreationFailed}]
            /\ UNCHANGED <<ccall, cfound>>
       ELSE IF /\ csession[h].authMode = Custom
               /\ creq[h].setup_action = "update"
               /\ creq[h].installation_id # ""
       THEN /\ Ends(h, Answer("notifySuccess", "", FALSE))
            /\ UNCHANGED <<ccall, cfound, chist>>
       ELSE \/ ExchangeThrows(h)
            \/ \E raw \in TokenResponses(OAuth2) :
                ParseAndLookUp(h, raw, OAuth2, CallbackConfig(csession[h], creq[h]))
    /\ UNCHANGED <<rows, nextId, sessions, nextSession, resp, creq, csession>>

\* oauth1Callback, were oauth_token and oauth_verifier not looked at
Oauth1Callback_Unchecked(h) ==
    /\ cpc[h] = "dispatch"
    /\ csession[h].authMode = OAuth1
    /\ \/ ExchangeThrows(h)
       \/ \E raw \in TokenResponses(OAuth1) :
            ParseAndLookUp(h, raw, OAuth1, AuthConfig("", "", ""))
    /\ UNCHANGED <<rows, nextId, sessions, nextSession, resp, creq, csession>>

Oauth1Callback(h) ==
    /\ cpc[h] = "dispatch"
    /\ csession[h].authMode = OAuth1
    /\ IF ~creq[h].granted
       THEN /\ Ends(h, Answer("notifyErr", "InvalidCallbackOAuth1", FALSE))
            /\ chist' = [chist EXCEPT ![h].hooks = @ \cup {ConnectionCreationFailed}]
            /\ UNCHANGED <<ccall, cfound>>
       ELSE \/ ExchangeThrows(h)
            \/ \E raw \in TokenResponses(OAuth1) :
                ParseAndLookUp(h, raw, OAuth1, AuthConfig("", "", ""))
    /\ UNCHANGED <<rows, nextId, sessions, nextSession, resp, creq, csession>>

\* a session of any other auth mode: UnknownAuthMode
UnknownAuthModeCallback(h) ==
    /\ cpc[h] = "dispatch"
    /\ csession[h].authMode \notin {OAuth2, Custom, OAuth1}
    /\ Ends(h, Answer("notifyErr", "UnknownAuthMode", FALSE))
    /\ UNCHANGED <<rows, nextId, sessions, nextSession, resp, creq, csession, ccall, cfound, chist>>

\* the INSERT of upsertConnection is refused by the unique index
UpsertThrows(h) == ~cfound[h].found /\ UniqueViolation(ccall[h].key)

\* the second statement of upsertConnection: UPDATE of the row found, or
\* INSERT; then the hooks the caller fires
UpsertWrite(h, fired) ==
    /\ rows' = IF cfound[h].found
               THEN UpdateById(cfound[h].id, LAMBDA r : Overridden(ccall[h], cfound[h], r))
               ELSE rows \cup {Inserted(ccall[h], nextId)}
    /\ nextId' = IF cfound[h].found THEN nextId ELSE nextId + 1
    /\ chist' = [chist EXCEPT ![h].writes = @ + 1, ![h].hooks = @ \cup fired]

\* upsertConnection threw: the catch block of the callback fires
\* connectionCreationFailedHook and notifies UnknownError
UpsertFails(h) ==
    /\ Ends(h, Answer("notifyErr", "UnknownError", FALSE))
    /\ chist' = [chist EXCEPT ![h].hooks = @ \cup {ConnectionCreationFailed}]
    /\ UNCHANGED <<rows, nextId>>

\* oauth2Callback / oauth1Callback from the write of upsertConnection on
CallbackUpsert(h) ==
    /\ cpc[h] = "write"
    /\ IF UpsertThrows(h) THEN UpsertFails(h)
       ELSE /\ UpsertWrite(h, {ConnectionCreated})
            /\ IF csession[h].authMode = Custom /\ creq[h].installation_id # ""
               THEN cpc' = [cpc EXCEPT ![h] = "finish"] /\ UNCHANGED cout
               ELSE Ends(h, Answer("notifySuccess", "",
                                   csession[h].authMode = Custom /\ creq[h].installation_id = ""))
    /\ UNCHANGED <<sessions, nextSession, resp, creq, csession, ccall, cfound>>

\* the installation token the provider returns to getAppCredentials
AppCredentials(token) ==
    [type |-> App, access_token |-> token, expires_at |-> IF token = "" THEN 0 ELSE 1,
     raw |-> [token |-> token]]

\* getAppCredentialsAndFinishConnection, up to the lookup of its upsertConnection;
\* when getAppCredentials fails it returns and the callback notifies success
FinishConnection(h) ==
    /\ cpc[h] = "finish"
    /\ \/ /\ Ends(h, Answer("notifySuccess", "", FALSE))
          /\ UNCHANGED <<ccall, cfound>>
       \/ \E token \in {"", "tk"} :
            /\ ccall' = [ccall EXCEPT ![h] =
                            UpsertConnectionCall(csession[h], AppCredentials(token),
                                                 ccall[h].connection_config)]
            /\ \E f \in CheckIfConnectionExists(SessionKey(csession[h])) :
                    cfound' = [cfound EXCEPT ![h] = f]
            /\ cpc' = [cpc EXCEPT ![h] = "finishwrite"]
            /\ UNCHANGED cout
    /\ UNCHANGED <<rows, nextId, sessions, nextSession, resp, creq, csession, chist>>

\* getAppCredentialsAndFinishConnection from the write of its upsertConnection on
FinishUpsert(h) ==
    /\ cpc[h] = "finishwrite"
    /\ IF UpsertThrows(h) THEN UpsertFails(h)
       ELSE UpsertWrite(h, {ConnectionCreated}) /\ Ends(h, Answer("notifySuccess", "", FALSE))
    /\ UNCHANGED <<sessions, nextSession, resp, creq, csession, ccall, cfound>>

\* the callback wrote the connection and one of the calls it awaits after
\* upsertConnection threw: updateProviderActivityLog or
\* createActivityLogMessageAndEnd (updateSuccessActivityLog in oauth1Callback)
\* before connectionCreatedHook, or telemetry.log after it in oauth2Callback;
\* the catch block fires connectionCreationFailedHook and notifies UnknownError
CallbackLogFails(h) ==
    /\ cpc[h] = "write"
    /\ ~UpsertThrows(h)
    /\ \E fired \in IF csession[h].authMode = OAuth1 THEN {{}} ELSE {{}, {ConnectionCreated}} :
            UpsertWrite(h, fired \cup {ConnectionCreationFailed})
    /\ Ends(h, Answer("notifyErr", "UnknownError", FALSE))
    /\ UNCHANGED <<sessions, nextSession, resp, creq, csession, ccall, cfound>>

AuthIdle ==
    /\ sessions = {}
    /\ nextSession = 0
    /\ resp = NoOutcome
    /\ templates = ConfiguredTemplates
    /\ cpc = [h \in Handlers |-> "idle"]
    /\ creq = [h \in Handlers |-> NoCallback]
    /\ csession = [h \in Handlers |-> NoSession]
    /\ ccall = [h \in Handlers |-> NoCall]
    /\ cfound = [h \in Handlers |-> NotFound]
    /\ cout = [h \in Handlers |-> NoAnswer]
    /\ chist = [h \in Handlers |-> NoHistory]

AuthInit == StoreInit /\ RefreshIdle /\ AuthIdle

----------------------------------------------------------------------------
(* Encryption Envelope: EncryptionManager.encryptConnection and            *)
(* decryptConnection.  In this part a JavaScript value of the field        *)
(* expires_at keeps its type: a Date, the ISO string JSON.stringify makes  *)
(* of a Date, or undefined.  The iv column is "" when NULL.                 *)

EncryptionKeys == {"k1", "k2"}
NoKey == ""

\* EncryptionManager.shouldEncrypt
ShouldEncrypt(k) == k # NoKey

JsUndefined == [typeof |-> "undefined", ms |-> 0]
JsDate(ms) == [typeof |-> "object", ms |-> ms]
JsIsoString(ms) == [typeof |-> "string", ms |-> ms]

\* the credentials object as a service call holds it: parseRawCredentials
\* sets expires_at to a Date, or leaves it undefined
Held(credentials) ==
    IF "expires_at" \in DOMAIN credentials
    THEN [credentials EXCEPT !.expires_at = IF @ = 0 THEN JsUndefined ELSE JsDate(@)]
    ELSE credentials

\* JSON.stringify: a Date becomes its ISO string, a key whose value is
\* undefined is left out (which reads as undefined again)
ToJson(v) == IF v.typeof = "object" THEN JsIsoString(v.ms) ELSE v

JsonStringify(credentials) ==
    [json |-> IF "expires_at" \in DOMAIN credentials
              THEN [credentials EXCEPT !.expires_at = ToJson(@)]
              ELSE credentials]

\* JSON.parse: an ISO string stays a string
JsonParse(text) == text.json

\* the random initialisation vectors of the cipher
Ivs == {"iv1", "iv2"}

\* Encryption.encrypt(str): [ciphertext, iv, authTag] under the key and a
\* random iv
Encrypt(k, str, iv) ==
    <<[sealed |-> str, key |-> k, iv |-> iv], iv, [tag |-> str, key |-> k, iv |-> iv]>>

DecryptionFailed == [ok |-> FALSE, str |-> [json |-> NoCredentials]]

\* Encryption.decrypt(ciphertext, iv, authTag): the plaintext, or a throw
\* when the key, the iv or the tag is not the one of the ciphertext
Decrypt(k, ciphertext, iv, authTag) ==
    IF /\ ciphertext.key = k
       /\ ciphertext.iv = iv
       /\ authTag = [tag |-> ciphertext.sealed, key |-> k, iv |-> iv]
    THEN [ok |-> TRUE, str |-> ciphertext.sealed]
    ELSE DecryptionFailed

\* a row of _nango_connections with its encryption columns; the tag
\* column is NoTag when NULL
NoTag == [null |-> TRUE]

EnvelopeRow(id, credentials) ==
    [id |-> id, connection_id |-> "c1", credentials |-> credentials,
     credentials_iv |-> "", credentials_tag |-> NoTag]

NoEnvelopeRow == EnvelopeRow(0, NoCredentials)

\* EncryptionManager.encryptConnection
EncryptConnection(connection, k, iv) ==
    IF ~ShouldEncrypt(k) THEN connection
    ELSE LET enc == Encrypt(k, JsonStringify(connection.credentials), iv)
         IN  [connection EXCEPT !.credentials = [encrypted_credentials |-> enc[1]],
                                !.credentials_iv = enc[2],
                                !.credentials_tag = enc[3]]

NotDecrypted == [ok |-> FALSE, connection |-> NoEnvelopeRow]

DecryptConnection_Raw(connection, k) == [ok |-> TRUE, connection |-> connection]

\* EncryptionManager.decryptConnection: ok is false when decrypt throws
DecryptConnection(connection, k) ==
    IF connection.credentials_iv = "" \/ connection.credentials_tag = NoTag
    THEN [ok |-> TRUE, connection |-> connection]
    ELSE LET dec == Decrypt(k, connection.credentials.encrypted_credentials,
                            connection.credentials_iv, connection.credentials_tag)
         IN  IF dec.ok
             THEN [ok |-> TRUE,
                   connection |-> [connection EXCEPT !.credentials = JsonParse(dec.str)]]
             ELSE NotDecrypted

\* the credentials a service call can hold: every variant the parser
\* returns, the App variant, an imported API key and `credentials: {}`
EnvelopeExpiresIn == 3600
HeldCredentialInputs ==
    {Held(ParseRawCredentials(RawResponse("at", rt, 0, ei, "", "", ""), OAuth2, 0).credentials) :
        rt \in {"", "rt"}, ei \in {0, EnvelopeExpiresIn}}
    \cup {Held(ParseRawCredentials(RawResponse("", "", 0, ei, "", "", "tk"), OAuth2CC, 0).credentials) :
        ei \in {0, EnvelopeExpiresIn}}
    \cup {Held(ParseRawCredentials(RawResponse("", "", 0, 0, "ot", "os", ""), OAuth1, 0).credentials)}
    \cup {Held(AppCredentials("tk"))}
    \cup ApiCredentialInputs
    \cup {NoCredentials}

HeldConnections == {EnvelopeRow(id, c) : id \in {1, 2}, c \in HeldCredentialInputs}

\* a service call encrypts the connection it holds (upsertConnection,
\* updateConnection) ...
EncryptConnectionCall ==
    /\ estep = "held"
    /\ \E iv \in Ivs : estored' = EncryptConnection(ein, encryptionKey, iv)
    /\ estep' = "stored"
    /\ UNCHANGED <<encryptionKey, ein, eout>>

\* ... and a later one decrypts what was stored (getConnection)
DecryptConnectionCall ==
    /\ estep = "stored"
    /\ eout' = DecryptConnection(estored, encryptionKey)
    /\ estep' = "read"
    /\ UNCHANGED <<encryptionKey, ein, estored>>

EnvelopeIdle ==
    /\ ein = NoEnvelopeRow
    /\ estored = NoEnvelopeRow
    /\ eout = NotDecrypted
    /\ estep = "idle"

EnvelopeInit ==
    /\ encryptionKey \in {NoKey} \cup EncryptionKeys
    /\ ein \in HeldConnections
    /\ estored = NoEnvelopeRow
    /\ eout = NotDecrypted
    /\ estep = "held"

----------------------------------------------------------------------------
(* Encryption Envelope: the one-time migration encryptDatabaseIfNeeded,    *)
(* run when the process boots.  Every await that writes is a step, and the *)
(* process can be interrupted between any two steps.  Of the tables        *)
(* encryptDatabase walks, _nango_connections is represented.               *)

MaxRows == 2
MaxRuns == 3
RowIds == 1..MaxRows

\* hashEncryptionKey(key, keySalt): pbkdf2, one hash per key; null is ""
HashEncryptionKey(k) == IF k = "k1" THEN "h1" ELSE IF k = "k2" THEN "h2" ELSE ""

EncryptionKeyHash(k) == IF k # NoKey THEN HashEncryptionKey(k) ELSE ""

\* a row of _nango_db_config
DBConfig(encryption_key_hash, encryption_complete) ==
    [encryption_key_hash |-> encryption_key_hash, encryption_complete |-> encryption_complete]

\* db.knex.first().from('_nango_db_config') on a table that is not empty
FirstDbConfig(table) == CHOOSE c \in table : TRUE

IsEncryptionKeyNew(table, k) == table = {} /\ k # NoKey

IsEncryptionIncomplete_AnyState(table, k) ==
    /\ table # {}
    /\ FirstDbConfig(table).encryption_key_hash = EncryptionKeyHash(k)

IsEncryptionIncomplete(table, k) ==
    /\ table # {}
    /\ FirstDbConfig(table).encryption_key_hash = EncryptionKeyHash(k)
    /\ FirstDbConfig(table).encryption_complete = FALSE

IsEncryptionKeyChanged_Never(table, k) == FALSE

IsEncryptionKeyChanged(table, k) ==
    /\ table # {}
    /\ FirstDbConfig(table).encryption_key_hash # ""
    /\ FirstDbConfig(table).encryption_key_hash # EncryptionKeyHash(k)

\* what the table holds in clear: credentials as the JSON column returns them
PlaintextCredentialInputs ==
    {JsonParse(JsonStringify(c)) :
        c \in {Held(ParseRawCredentials(RawResponse("at", "rt", 0, EnvelopeExpiresIn, "", "", ""),
                                        OAuth2, 0).credentials),
               Held(ParseRawCredentials(RawResponse("", "", 0, 0, "ot", "os", ""),
                                        OAuth1, 0).credentials)}}

IsEncrypted(connection) ==
    connection.credentials_iv # "" /\ connection.credentials_tag # NoTag

NoRun == [dbConfig |-> {}, dbConnections |-> {}, booted |-> FALSE]

Running == {"start", "del1", "ins1", "select", "loop", "rest", "del2", "ins2"}

\* the process boots with the key of its environment and calls
\* encryptDatabaseIfNeeded
Boot ==
    /\ mpc \in {"down", "returned", "thrown"}
    /\ mruns < MaxRuns
    /\ mruns' = mruns + 1
    /\ \E k \in {NoKey} \cup EncryptionKeys :
        /\ encryptionKey' = k
        /\ mkeys' = mkeys \cup {k}
    /\ mstart' = [dbConfig |-> dbConfig, dbConnections |-> dbConnections, booted |-> TRUE]
    /\ mpc' = "start"
    /\ UNCHANGED <<dbConfig, dbConnections, connections, mtimes>>

\* the process dies
Interrupt ==
    /\ mpc \in Running
    /\ mpc' = "down"
    /\ connections' = {}
    /\ UNCHANGED <<encryptionKey, dbConfig, dbConnections, mtimes, mruns, mstart, mkeys>>

\* encryptDatabaseIfNeeded: reads the checkpoint and decides
EncryptDatabaseIfNeeded ==
    /\ mpc = "start"
    /\ mpc' = IF IsEncryptionKeyNew(dbConfig, encryptionKey) THEN "del1"
              ELSE IF IsEncryptionIncomplete(dbConfig, encryptionKey) THEN "select"
              ELSE IF IsEncryptionKeyChanged(dbConfig, encryptionKey) THEN "thrown"
              ELSE "returned"
    /\ UNCHANGED <<encryptionKey, dbConfig, dbConnections, connections, mtimes, mruns,
                   mstart, mkeys>>

\* saveDbConfig: del() ...
SaveDbConfigDel ==
    /\ mpc \in {"del1", "del2"}
    /\ dbConfig' = {}
    /\ mpc' = IF mpc = "del1" THEN "ins1" ELSE "ins2"
    /\ UNCHANGED <<encryptionKey, dbConnections, connections, mtimes, mruns, mstart, mkeys>>

\* ... then insert(dbConfig): encryption_complete is false before
\* encryptDatabase and true after it
SaveDbConfigInsert ==
    /\ mpc \in {"ins1", "ins2"}
    /\ dbConfig' = dbConfig \cup {DBConfig(EncryptionKeyHash(encryptionKey), mpc = "ins2")}
    /\ mpc' = IF mpc = "ins1" THEN "select" ELSE "returned"
    /\ UNCHANGED <<encryptionKey, dbConnections, connections, mtimes, mruns, mstart, mkeys>>

\* encryptDatabase: select * from _nango_connections
SelectConnections ==
    /\ mpc = "select"
    /\ connections' = dbConnections
    /\ mpc' = "loop"
    /\ UNCHANGED <<encryptionKey, dbConfig, dbConnections, mtimes, mruns, mstart, mkeys>>

\* one iteration of the loop, were a row never skipped
EncryptNext_NoSkip ==
    /\ mpc = "loop"
    /\ connections # {}
    /\ \E connection \in connections :
        /\ connections' = connections \ {connection}
        /\ \E iv \in Ivs :
              dbConnections' =
                  {IF r.id = connection.id
                   THEN EncryptConnection(connection, encryptionKey, iv) ELSE r :
                       r \in dbConnections}
        /\ mtimes' = [mtimes EXCEPT ![connection.id] = @ + 1]
    /\ UNCHANGED <<encryptionKey, dbConfig, mpc, mruns, mstart, mkeys>>

\* one iteration of the loop over connections: a row that carries an iv and
\* a tag is skipped, any other is encrypted and updated by id
EncryptNext ==
    /\ mpc = "loop"
    /\ connections # {}
    /\ \E connection \in connections :
        /\ connections' = connections \ {connection}
        /\ IF IsEncrypted(connection)
           THEN UNCHANGED <<dbConnections, mtimes>>
           ELSE /\ \E iv \in Ivs :
                     dbConnections' =
                         {IF r.id = connection.id
                          THEN EncryptConnection(connection, encryptionKey, iv) ELSE r :
                              r \in dbConnections}
                /\ mtimes' = [mtimes EXCEPT ![connection.id] = @ + 1]
    /\ UNCHANGED <<encryptionKey, dbConfig, mpc, mruns, mstart, mkeys>>

\* the loop over connections is done
EncryptedConnections ==
    /\ mpc = "loop"
    /\ connections = {}
    /\ mpc' = "rest"
    /\ UNCHANGED <<encryptionKey, dbConfig, dbConnections, connections, mtimes, mruns,
                   mstart, mkeys>>

\* the loops over the tables that follow (provider configs, environment
\* variables, data records), then encryptDatabase returns
EncryptRest ==
    /\ mpc = "rest"
    /\ mpc' = "del2"
    /\ UNCHANGED <<encryptionKey, dbConfig, dbConnections, connections, mtimes, mruns,
                   mstart, mkeys>>

MigrationIdle ==
    /\ dbConfig = {}
    /\ dbConnections = {}
    /\ connections = {}
    /\ mpc = "down"
    /\ mtimes = [id \in RowIds |-> 0]
    /\ mruns = 0
    /\ mstart = NoRun
    /\ mkeys = {}

\* a database that has run without a key: no checkpoint, rows in clear
MigrationInit ==
    /\ encryptionKey = NoKey
    /\ dbConfig = {}
    /\ \E n \in 0..MaxRows : \E c \in [1..n -> PlaintextCredentialInputs] :
        dbConnections = {EnvelopeRow(id, c[id]) : id \in 1..n}
    /\ connections = {}
    /\ mpc = "down"
    /\ mtimes = [id \in RowIds |-> 0]
    /\ mruns = 0
    /\ mstart = NoRun
    /\ mkeys = {}

----------------------------------------------------------------------------
(* Specifications *)

\* what the steps of one component leave alone
StoreOnly == UNCHANGED <<refreshVars, authVars, encVars, orphan, decision, merge>>
RefreshOnly == UNCHANGED <<authVars, encVars, orphan, decision, merge>>
RequestOnly == UNCHANGED <<writes, wpc, wcall, wfound, wret, wprev, calls, refreshVars, encVars, orphan, decision, merge>>
AuthOnly == UNCHANGED <<writes, wpc, wcall, wfound, wret, wprev, calls, templates, refreshVars, encVars, orphan, decision, merge>>
EnvelopeOnly == UNCHANGED <<storeVars, refreshVars, authVars, migrationVars, orphan, decision, merge>>
MigrationOnly == UNCHANGED <<storeVars, refreshVars, authVars, envelopeVars, orphan, decision, merge>>

\* no encryption key is configured
EncIdle == encryptionKey = NoKey /\ EnvelopeIdle /\ MigrationIdle

\* the connection store under concurrent service calls
Init == StoreInit /\ RefreshIdle /\ AuthIdle /\ EncIdle /\ DecisionIdle

Next ==
    \E w \in Workers :
        \/ StartCall(w) /\ StoreOnly
        \/ UpsertCheck(w) /\ StoreOnly
        \/ UpsertUpdate(w) /\ StoreOnly
        \/ UpsertInsert(w) /\ StoreOnly
        \/ DeleteConnection(w) /\ StoreOnly

Spec == Init /\ [][Next]_vars

\* the refresh coordinator under concurrent credential reads
InitRefresh == RefreshInit /\ AuthIdle /\ EncIdle /\ DecisionIdle

NextRefresh ==
    \/ \E p \in Callers :
        \/ GetConnectionCredentials(p) /\ RefreshOnly
        \/ Acquire(p) /\ RefreshOnly
        \/ AcquireTimeout(p) /\ RefreshOnly
        \/ GetNewCredentialsOk(p) /\ RefreshOnly
        \/ GetNewCredentialsFails(p) /\ RefreshOnly
        \/ GetNewCredentialsUnparsable(p) /\ RefreshOnly
        \/ UpdateConnection(p) /\ RefreshOnly
        \/ Release(p) /\ RefreshOnly
    \/ Tick /\ RefreshOnly

SpecRefresh == InitRefresh /\ [][NextRefresh]_vars

\* the refresh coordinator when every caller that holds the lock runs on: the
\* provider call returns or throws, the update of the row and the finally
\* block are executed
AfterAcquire(p) ==
    \/ GetNewCredentialsOk(p) \/ GetNewCredentialsFails(p) \/ GetNewCredentialsUnparsable(p)
    \/ UpdateConnection(p) \/ Release(p)

InitRelease == StoredWith({StoredCredential("rt", ExpiredAt)}) /\ AuthIdle /\ EncIdle /\ DecisionIdle

SpecRelease ==
    InitRelease /\ [][NextRefresh]_vars
        /\ \A p \in Callers : WF_vars(AfterAcquire(p) /\ RefreshOnly)

\* the refresh coordinator called for an OAuth2 and for an AppStore connection
InitAppStore ==
    /\ StoredWith({StoredCredential("rt", ExpiredAt),
                   GetAppStoreCredentials(JwtResponse("at0", ExpiredAt), PrivateKey)})
    /\ AuthIdle /\ EncIdle /\ DecisionIdle

NextAppStore ==
    \/ NextRefresh
    \/ \E p \in Callers : RefreshCredentialsIfNeeded(p) /\ RefreshOnly

SpecAppStore == InitAppStore /\ [][NextAppStore]_vars

\* the refresh coordinator while the connection is deleted
NextDelete ==
    \/ NextRefresh
    \/ DeleteStoredConnection /\ UNCHANGED <<authVars, encVars, orphan, decision, merge>>

SpecDelete == InitRelease /\ [][NextDelete]_vars

\* the refresh coordinator while other operations write the metadata and the
\* connection_config of the row
NextFrame ==
    \/ NextRefresh
    \/ ReplaceMetadata /\ UNCHANGED <<authVars, encVars, orphan, decision, merge>>
    \/ ReplaceConnectionConfig /\ UNCHANGED <<authVars, encVars, orphan, decision, merge>>

SpecFrame == InitRelease /\ [][NextFrame]_vars

\* the refresh coordinator when the process of one lock holder crashes
NextCrash ==
    \/ NextRefresh
    \/ \E p \in Callers : AcquireAndCrash(p) /\ UNCHANGED <<authVars, encVars, decision, merge>>

SpecCrash == InitRelease /\ [][NextCrash]_vars

\* one call of refreshCredentialsIfNeeded, with every combination of arguments
DecisionOnly ==
    UNCHANGED <<storeVars, now, rpc, rconn, rinstant, rstart, rres, rcalled, issued,
                authVars, encVars, orphan, merge>>

InitDecision == StoreInit /\ RefreshIdle /\ AuthIdle /\ EncIdle /\ DecisionInit

NextDecision ==
    \/ ShouldRefresh /\ DecisionOnly
    \/ TryAcquire /\ DecisionOnly
    \/ ReturnCredentials /\ DecisionOnly

SpecDecision == InitDecision /\ [][NextDecision]_vars

\* credential reads of connections of every variant that carries an expiry
InitRead == ReadInit /\ AuthIdle /\ EncIdle /\ DecisionIdle

SpecRead == InitRead /\ [][NextRefresh]_vars

\* oauthRequest, with every input it can be given
InitAuth == AuthInit /\ EncIdle /\ DecisionIdle

NextRequest == OauthRequest /\ RequestOnly

SpecRequest == InitAuth /\ [][NextRequest]_vars

\* calls of oauthRequest alone, over complete and incomplete provider configs
NextConfig == OauthRequestConfigs /\ RequestOnly
SpecConfig == InitAuth /\ [][NextConfig]_vars

\* the authorization state machine under concurrent requests and callbacks
NextAuth ==
    \/ OauthRequestPersists /\ AuthOnly
    \/ \E h \in Handlers :
        \/ OauthCallback(h) /\ AuthOnly
        \/ DeleteSession(h) /\ AuthOnly
        \/ Oauth2Callback(h) /\ AuthOnly
        \/ Oauth1Callback(h) /\ AuthOnly
        \/ UnknownAuthModeCallback(h) /\ AuthOnly
        \/ CallbackUpsert(h) /\ AuthOnly
        \/ FinishConnection(h) /\ AuthOnly
        \/ FinishUpsert(h) /\ AuthOnly

SpecAuth == InitAuth /\ [][NextAuth]_vars

\* one oauth2Callback that has its token response, with every combination of
\* session config, token metadata and callback metadata
InitMerge ==
    /\ AuthInit /\ EncIdle
    /\ decision = NoDecision /\ orphan = NoOrphan
    /\ MergeInit

NextMerge == BuildConnectionConfig

SpecMerge == InitMerge /\ [][NextMerge]_vars

\* the callbacks when a call awaited after upsertConnection can throw
NextHooks ==
    \/ NextAuth
    \/ \E h \in Handlers : CallbackLogFails(h) /\ AuthOnly

SpecHooks == InitAuth /\ [][NextHooks]_vars

\* requests with overrides, and the callbacks of their sessions
NextOverride ==
    \/ OauthRequestOverrides /\ RequestOnly
    \/ \E h \in Handlers :
        \/ OauthCallback(h) /\ AuthOnly
        \/ DeleteSession(h) /\ AuthOnly
        \/ Oauth2Callback(h) /\ AuthOnly
        \/ CallbackUpsert(h) /\ AuthOnly
        \/ FinishConnection(h) /\ AuthOnly
        \/ FinishUpsert(h) /\ AuthOnly

SpecOverride == InitAuth /\ [][NextOverride]_vars

\* the encryption envelope, with every connection a call can hold
InitEnvelope == StoreInit /\ RefreshIdle /\ AuthIdle /\ EnvelopeInit /\ MigrationIdle /\ DecisionIdle

NextEnvelope ==
    \/ EncryptConnectionCall /\ EnvelopeOnly
    \/ DecryptConnectionCall /\ EnvelopeOnly

SpecEnvelope == InitEnvelope /\ [][NextEnvelope]_vars

\* the migration, under boots with any key and interruptions
InitEncrypt == StoreInit /\ RefreshIdle /\ AuthIdle /\ EnvelopeIdle /\ MigrationInit /\ DecisionIdle

NextEncrypt ==
    \/ Boot /\ MigrationOnly
    \/ Interrupt /\ MigrationOnly
    \/ EncryptDatabaseIfNeeded /\ MigrationOnly
    \/ SaveDbConfigDel /\ MigrationOnly
    \/ SaveDbConfigInsert /\ MigrationOnly
    \/ SelectConnections /\ MigrationOnly
    \/ EncryptNext /\ MigrationOnly
    \/ EncryptedConnections /\ MigrationOnly
    \/ EncryptRest /\ MigrationOnly

SpecEncrypt == InitEncrypt /\ [][NextEncrypt]_vars

----------------------------------------------------------------------------
(* Claims about the Connection Store *)

RowsOfKey(k) == {r \in rows : KeyOf(r) = k}

\* C7: in every reachable state, under any interleaving of the upsert and
\* delete calls, at most one non-deleted row exists per natural key
\* (connection_id, provider_config_key, environment_id).
C7_AtMostOneLiveRowPerKey ==
    \A k \in NaturalKeys : Cardinality(Live(k)) <= 1

\* two upserts of a key that did not exist raced: both looked the key up
\* before either inserted, one inserted and the other's INSERT was refused
C7_Witness ==
    \E w \in Workers :
        /\ IsUpsert([name |-> wret[w].name]) /\ wret[w].threw
        /\ Cardinality(Live(wret[w].key)) = 1

\* a worker's two last calls were upsertConnection of one natural key with
\* the same credentials, in sequence, the first created the row, and no
\* other write statement touched the key in between or since
InSequence(w) ==
    /\ wprev[w].name = "upsertConnection" /\ wret[w].name = "upsertConnection"
    /\ wprev[w].key = wret[w].key
    /\ wprev[w].credentials = wret[w].credentials
    /\ ~wprev[w].threw /\ wprev[w].operation = CREATION
    /\ wret[w].writes = wprev[w].writes + 1
    /\ writes[wret[w].key] = wret[w].writes

\* C8: calling upsertConnection twice in sequence with the same natural key
\* and the same credentials leaves exactly one row; the first call returns
\* creation with a new id and the second returns override with that id.
C8_UpsertIdempotent ==
    \A w \in Workers :
        InSequence(w) =>
            /\ ~wret[w].threw
            /\ wret[w].operation = OVERRIDE
            /\ wret[w].id = wprev[w].id
            /\ \E r \in rows :
                /\ Live(wret[w].key) = {r}
                /\ r.id = wret[w].id
                /\ r.credentials = wret[w].credentials
            /\ \A r \in RowsOfKey(wret[w].key) : r.id <= wret[w].id

C8_Witness ==
    \E w \in Workers : InSequence(w) /\ wret[w].operation = OVERRIDE /\ rows # {}

\* C9: no lookup of the connection service returns a row whose deleted flag
\* is set, for any arguments (including an empty key/value filter).
C9_LookupsExcludeDeleted ==
    /\ \A id \in 1..nextId : \A r \in GetConnectionById(id) : ~r.deleted
    /\ \A k \in NaturalKeys :
        /\ \A r \in GetConnection(k) : ~r.deleted
        /\ \A f \in CheckIfConnectionExists(k) :
                f.found => \A r \in rows : r.id = f.id => ~r.deleted
        /\ \A r \in GetMetadata(k) : ~r.deleted
        /\ \A r \in GetConnectionConfig(k) : ~r.deleted
    /\ \A e \in EnvironmentIds :
        /\ \A p \in ProviderConfigKeys :
                \A r \in GetConnectionsByEnvironmentAndConfig(e, p) : ~r.deleted
        /\ \A c \in ConnectionIds \cup {""} : \A r \in ListConnections(e, c) : ~r.deleted
        /\ \A key \in ConfigKeys : \A value \in ConfigValues :
                \A r \in FindConnectionsByConnectionConfigValue(key, value, e) : ~r.deleted
        /\ \A kv \in KeyValueFilters :
                \A r \in FindConnectionsByMultipleConnectionConfigValues(kv, e) : ~r.deleted

\* the same, for every filter that has at least one entry
LookupsWithAFilterExcludeDeleted ==
    \A e \in EnvironmentIds : \A kv \in KeyValueFilters :
        DOMAIN kv # {} =>
            \A r \in FindConnectionsByMultipleConnectionConfigValues(kv, e) : ~r.deleted

----------------------------------------------------------------------------
(* Claims about the Refresh Coordinator *)

InCriticalSection(p) == rpc[p] \in {"critical", "fetched"}

\* C1: for N concurrent calls of refreshCredentialsIfNeeded on one connection
\* whose stored credentials are expired and refreshable, at most one provider
\* refresh call is made in total (the callers arrive at the same instant, none
\* forces the refresh, and the provider answers every call it gets).
C1_AtMostOneProviderRefresh ==
    (now = 0 /\ \A p \in Callers : ~rinstant[p] /\ rcalled[p] # "failed")
        => Cardinality({p \in Callers : rcalled[p] = "ok"}) <= 1

\* C2: at every moment at most one caller is inside the refresh critical
\* section (getNewCredentials followed by updateConnection) of a lock key.
C2_OneCallerInCriticalSection ==
    Cardinality({p \in Callers : InCriticalSection(p)}) <= 1

\* a step of caller p in which its refresh fails: tryAcquire times out, or
\* getNewCredentials fails
RefreshFails(p) ==
    /\ rpc[p] \in {"acquiring", "critical"}
    /\ rpc'[p] = "finally"

\* { ...existing, ...argument } on metadata values: the keys of the argument
\* replace those of the existing object, the other keys stay
MergedMetadata(existing, argument) ==
    IF argument.nul THEN existing
    ELSE IF existing.nul THEN argument
    ELSE MetaObj([k \in MetaKeys |->
                    IF argument.kv[k] # "" THEN argument.kv[k] ELSE existing.kv[k]])

\* C30: when upsertConnection found an existing row, the metadata stored by
\* its update is the metadata of the row found merged with the metadata
\* argument, the argument winning and the keys it lacks kept; without a
\* metadata argument the existing metadata stays.
C30_MetadataMerged ==
    [][\A w \in Workers :
        (/\ wpc[w] = "write" /\ wpc'[w] = "idle"
         /\ wcall[w].name = "upsertConnection" /\ wfound[w].found)
        => \A r \in rows' :
              (r.id = wfound[w].id /\ ~r.deleted)
                => r.metadata = MergedMetadata(wfound[w].metadata, wcall[w].metadata)]_vars

\* C11: when a refresh is needed and fails (provider error, unparsable
\* response, lock acquisition timeout), refreshCredentialsIfNeeded returns
\* success = false with no credentials, getConnectionCredentials returns no
\* connection, and the failing call leaves the stored row as it was, up to
\* and including its return.
C11_RefreshFailureReturnsNoCredentials ==
    [][\A p \in Callers :
        /\ RefreshFails(p) =>
              /\ ~rres'[p].success
              /\ rres'[p].error # ""
              /\ rres'[p].credentials = NoCredentials
              /\ GetConnectionCredentialsReturn(rconn[p], rres'[p]).response = NoConnection
              /\ rows' = rows
        /\ (rpc[p] = "finally" /\ rpc'[p] = "done" /\ rcalled[p] # "ok") =>
              /\ rres'[p] = rres[p]
              /\ ~rres'[p].success
              /\ rows' = rows]_vars

\* one caller's refresh failed at the provider, another's in tryAcquire
C11_Witness ==
    \E p, q \in Callers :
        /\ rpc[p] = "done" /\ rcalled[p] = "failed" /\ ~rres[p].success
        /\ rpc[q] = "done" /\ rcalled[q] = "no"
        /\ rres[q] = Failure("refresh_token_external_error")
        /\ \E r \in rows : r.credentials.access_token = "at0"

\* the buffer of the call: template.token_expiration_buffer, 15 minutes by default
BufferMs ==
    IF decision.template.token_expiration_buffer # 0
    THEN decision.template.token_expiration_buffer * 1000
    ELSE 15 * 60 * 1000

\* the credentials of the call can be refreshed: OAuth2 credentials of a
\* provider other than facebook need a refresh token
Refreshable ==
    (decision.credentials.type = OAuth2 /\ decision.provider # "facebook")
        => decision.credentials.refresh_token # ""

\* C21: shouldRefreshCredentials is true exactly when (instantRefresh is set,
\* or introspection reports the token invalid, or expires_at is set and
\* within the buffer of now) and, for OAuth2 credentials of a provider other
\* than facebook, a refresh token is present; when it is false,
\* refreshCredentialsIfNeeded takes no lock and returns the credentials it was
\* given
C21_RefreshDecision ==
    /\ decision.step \in {"decided", "acquired", "returned"} =>
        (decision.shouldRefresh <=>
            /\ \/ decision.instantRefresh
               \/ decision.introspected
               \/ (decision.credentials.expires_at # 0
                   /\ decision.credentials.expires_at - now < BufferMs)
            /\ Refreshable)
    /\ (decision.step = "decided" /\ ~decision.shouldRefresh) => ~ENABLED TryAcquire
    /\ decision.step = "returned" =>
        /\ ~decision.shouldRefresh
        /\ ~lock[RefreshKey].held
        /\ decision.response = Success(decision.credentials)

C21_Witness ==
    /\ decision.step = "returned"
    /\ decision.credentials.type = OAuth2 /\ decision.credentials.refresh_token = ""
    /\ decision.credentials.expires_at # 0 /\ decision.credentials.expires_at - now < BufferMs
    /\ decision.provider = "github"
    /\ decision.response.credentials = decision.credentials

OrphanInForce == orphan.held /\ lock[RefreshKey] = orphan /\ now < orphan.expiresAt

\* a step in which the tryAcquire of caller p times out
TimesOut(p) == rpc[p] = "acquiring" /\ rpc'[p] = "finally"

\* C23, as stated: when a lock holder has crashed without releasing, no
\* caller waiting in tryAcquire for the key fails while the entry of the
\* crashed holder is in place
C23_NoWaiterFails ==
    [][\A p \in Callers : TimesOut(p) => ~OrphanInForce]_vars

\* C23, amended: a caller that began to wait once the crashed holder had
\* taken the lock does not time out while that entry is in place (the
\* acquisition timeout is longer than the TTL), and once the entry has
\* expired every caller still waiting can take the lock
C23_LaterWaiterOutlivesOrphan ==
    /\ [][\A p \in Callers :
            (TimesOut(p) /\ OrphanInForce) => rstart[p] < orphan.expiresAt - TtlInMs]_vars
    /\ [](\A p \in Callers :
            (orphan.held /\ lock[RefreshKey] = orphan /\ now >= orphan.expiresAt
                /\ rpc[p] = "acquiring" /\ now - rstart[p] < AcquisitionTimeoutMs)
            => ENABLED Acquire(p))

\* a caller that waited on the entry of a crashed holder holds the lock after
\* the TTL of that entry has passed
C23_Witness ==
    \E p \in Callers :
        /\ orphan.held /\ now >= orphan.expiresAt
        /\ rpc[p] = "critical"
        /\ lock[RefreshKey].expiresAt = orphan.expiresAt + TtlInMs

\* caller p leaves refreshCredentialsIfNeeded without having held the lock:
\* its tryAcquire threw
ReturnsWithoutLock(p) == rpc[p] = "finally" /\ rcalled[p] = "no" /\ rpc'[p] = "done"

\* another caller holds the lock: it is inside the critical section and its
\* entry has not expired
HeldByAnother(p) ==
    /\ lock[RefreshKey].held /\ now < lock[RefreshKey].expiresAt
    /\ \E q \in Callers \ {p} : InCriticalSection(q)

C31_LoserLeavesLockEntry ==
    [][\A p \in Callers :
        (ReturnsWithoutLock(p) /\ HeldByAnother(p)) => lock'[RefreshKey] = lock[RefreshKey]]_vars

\* a step in which the tryAcquire of caller p returns: from here to its
\* provider call the caller leaves its connection object as it is
TakesLock(p) == rpc[p] = "acquiring" /\ rpc'[p] = "critical"

\* C32: the provider refresh call a caller makes while holding the lock uses
\* the credentials that are stored for the connection at the moment the lock
\* was acquired, not a copy read before the wait that the refresh of another
\* caller has superseded.
C32_RefreshUsesStoredCredentials ==
    [][\A p \in Callers :
        TakesLock(p) => \A r \in GetConnection(RefreshKey) :
                            rconn[p].credentials = r.credentials]_vars

\* C33: a successful refresh changes only the credentials of the stored row:
\* the metadata and the connection_config that other operations wrote between
\* the read of the connection and the updateConnection of the refresh are
\* still in the row after that write.
C33_RefreshWritesCredentialsOnly ==
    [][\A p \in Callers :
        (rpc[p] = "fetched" /\ rpc'[p] = "finally")
            => \A r \in rows : \E written \in rows' :
                    /\ written.id = r.id
                    /\ written.metadata = r.metadata
                    /\ written.connection_config = r.connection_config]_vars

\* the variants of credentials that carry an expiry
ExpiringTypes == {OAuth2, OAuth2CC, App, AppStore}

\* C19: every read of a connection whose credential variant carries an expiry
\* (OAuth2, OAuth2ClientCredentials, App, AppStore) goes through
\* refreshCredentialsIfNeeded and returns its result: a read that succeeds
\* never hands back credentials that are past their expiry (less the buffer)
C19_ReadReturnsRefreshedCredentials ==
    \A p \in Callers :
        (rpc[p] = "done" /\ rres[p].success
            /\ rres[p].credentials.type \in ExpiringTypes)
        => ~IsTokenExpired(rres[p].credentials.expires_at, DefaultExpirationBufferSec, now)

----------------------------------------------------------------------------
(* Claims about the Authorization State Machine *)

FoundSession(h) == csession[h] # NoSession

\* the handler is past `await oAuthSessionService.delete(state)`
IssuedDelete(h) == FoundSession(h) /\ cpc[h] \notin {"idle", "delete"}

\* C3: after oauthCallback has processed a callback for a state once, whatever
\* its outcome, a second callback with the same state finds no session: it
\* returns without an answer, exchanges no token and upserts no connection.
C3_SessionSingleUse ==
    \A h \in Handlers :
        chist[h].prior =>
            /\ ~FoundSession(h)
            /\ cpc[h] = "done" /\ cout[h] = NoAnswer
            /\ ~chist[h].exchanged
            /\ chist[h].writes = 0

\* a callback found its session, exchanged the code and stored the
\* connection; a second callback with that state came after it
C3_Witness ==
    \E h, g \in Handlers :
        /\ chist[h].prior /\ cpc[h] = "done"
        /\ creq[g].state = creq[h].state
        /\ FoundSession(g) /\ chist[g].exchanged /\ chist[g].writes > 0

\* C4: of the callbacks that carry one state, handled concurrently, at most
\* one finds the session and goes on to the token exchange, and the session
\* is deleted once.
C4_AtMostOneCallbackProceeds ==
    \A s \in IssuedStates \ {""} :
        LET with == {h \in Handlers : creq[h].state = s}
        IN  /\ Cardinality({h \in with : FoundSession(h)}) <= 1
            /\ Cardinality({h \in with : IssuedDelete(h)}) <= 1
            /\ Cardinality({h \in with : chist[h].exchanged}) <= 1

PersistedBy(outcome) == {s \in sessions : s.id = outcome.session}

\* C5: for the redirecting auth modes, oauthRequest either ends with a typed
\* error and no redirect, or redirects after it has persisted a session whose
\* id is the state the flow carries (the state parameter of the authorization
\* URL; for OAuth1, of the registered callback URL).
C5_RedirectCarriesPersistedState ==
    (resp.kind # "none" /\ resp.authMode \in RedirectingModes) =>
        \/ resp.kind = "notifyErr" /\ resp.error # ""
        \/ /\ resp.kind = "redirect"
           /\ \E s \in PersistedBy(resp) : resp.url["state"] = s.id

\* C6: for every OAuth2 request whose template does not set disable_pkce, and
\* every authorization_params of the request, the code_challenge of the
\* authorization URL is the unpadded base64url sha256 of the codeVerifier of
\* the session persisted for the request, and code_challenge_method is S256.
C6_PkceChallengeMatchesVerifier ==
    (resp.kind = "redirect" /\ resp.pkce) =>
        /\ \E s \in PersistedBy(resp) :
                resp.url["code_challenge"] = Sha256Base64Url(s.codeVerifier)
        /\ resp.url["code_challenge_method"] = "S256"

\* the request fails the checks oauthRequest makes on its input
InvalidInput(q) ==
    q.connection_id = "" \/ q.provider_config_key = "" \/ q.hmac \in {"missing", "invalid"}

InputErrorOf(q) ==
    IF q.connection_id = "" THEN "MissingConnectionId"
    ELSE IF q.provider_config_key = "" THEN "MissingProviderConfigKey"
    ELSE IF q.hmac = "missing" THEN "MissingHmac"
    ELSE "InvalidHmac"

\* C16: oauthRequest with a missing connection_id or providerConfigKey, or
\* (HMAC enabled) with a missing or invalid hmac, ends with the typed error
\* of that check notified to the client; the call creates no session (it
\* builds no session object and the session store is as it was), loads no
\* provider config and issues no redirect.
C16_InvalidInputNotified ==
    [][(resp'.kind # "none" /\ InvalidInput(resp'.request)
            /\ <<resp, sessions, nextSession>>' # <<resp, sessions, nextSession>>)
        => /\ resp'.kind = "notifyErr"
           /\ resp'.error = InputErrorOf(resp'.request)
           /\ resp'.session = ""
           /\ resp'.url = NoParams
           /\ ~resp'.loaded
           /\ sessions' = sessions
           /\ nextSession' = nextSession]_vars

\* a request with an invalid hmac was answered after another request had
\* persisted its session
C16_Witness ==
    /\ resp.kind = "notifyErr"
    /\ resp.error = "InvalidHmac"
    /\ resp.request.hmac = "invalid"
    /\ Cardinality(sessions) = 1
    /\ nextSession = 1

\* the request passes the checks of oauthRequest and is handed to the flow
\* of its mode
ReachesDispatch(q) ==
    BuildsSession(q) /\ ~(q.auth_mode # App /\ LacksField(LiveConfig(q)))

\* C25: for OAuth2 flows and for App/Custom flows alike, a placeholder of the
\* template's authorization_url or token_url that the connection config does
\* not resolve makes oauthRequest fail with the interpolation error, with no
\* session persisted and no redirect.
C25_UnresolvedPlaceholderFails ==
    [][(resp'.kind # "none" /\ ReachesDispatch(resp'.request)
            /\ resp'.request.auth_mode \in {OAuth2, App, Custom}
            /\ resp'.request.misses # ""
            /\ <<resp, sessions, nextSession>>' # <<resp, sessions, nextSession>>)
        => /\ resp'.kind = "notifyErr"
           /\ resp'.error = "InvalidConnectionConfig"
           /\ resp'.session = ""
           /\ resp'.url = NoParams
           /\ sessions' = sessions]_vars

\* C26: in the OAuth1 flow, a failure of the request-token call is notified
\* to the client as the token error and no session is created; when the call
\* succeeds the session is persisted with the request token secret the
\* provider returned, and the redirect is only sent with that session in the
\* store.
C26_RequestTokenThenSession ==
    [][(resp'.kind # "none" /\ ReachesDispatch(resp'.request)
            /\ resp'.request.auth_mode = OAuth1
            /\ <<resp, sessions, nextSession>>' # <<resp, sessions, nextSession>>)
        => /\ resp'.request.token_fails =>
                /\ resp'.kind = "notifyErr" /\ resp'.error = "TokenError"
                /\ resp'.session = "" /\ sessions' = sessions
           /\ (~resp'.request.token_fails /\ resp'.request.fault # "create") =>
                \E created \in sessions' \ sessions :
                    /\ created.id = resp'.session
                    /\ created.authMode = OAuth1
                    /\ created.requestTokenSecret = RequestTokenSecrets[nextSession']
           /\ resp'.kind = "redirect" =>
                \E created \in sessions' :
                    /\ created.id = resp'.session /\ created.id = resp'.url["state"]
                    /\ created.requestTokenSecret # ""]_vars

\* the second request was an OAuth1 request whose request-token call
\* succeeded: its session is in the store with the second secret
C26_Witness ==
    /\ resp.kind = "redirect" /\ resp.request.auth_mode = OAuth1
    /\ \E created \in sessions :
        created.id = resp.session /\ created.requestTokenSecret = RequestTokenSecrets[2]

\* C27: a request that got as far as the validation of the provider config
\* fails with InvalidProviderConfig exactly when the auth mode of the template
\* is not None and the client id, the client secret or the scopes are missing
\* after the overrides were applied; the request then creates no session.
C27_InvalidProviderConfigExactly ==
    [][(resp'.kind # "none" /\ BuildsSession(resp'.request)
            /\ <<resp, sessions, nextSession>>' # <<resp, sessions, nextSession>>)
        => /\ (resp'.kind = "notifyErr" /\ resp'.error = "InvalidProviderConfig")
                <=> (resp'.request.auth_mode # NoneMode /\ LacksField(LiveConfig(resp'.request)))
           /\ resp'.error = "InvalidProviderConfig" =>
                (resp'.session = "" /\ sessions' = sessions)]_vars

\* C34: whenever oauthRequest ends by notifying an error, no session that
\* the call created remains in the session store, also when the failure came
\* after the session was persisted.
C34_ErrorLeavesNoSession ==
    [][resp'.kind = "notifyErr" => sessions' = sessions]_vars

\* C17: every call of oauthRequest ends in exactly one of a redirect to the
\* authorization URL and a typed error delivered through publisher.notifyErr;
\* no exception escapes the handler, whatever the auth mode and whichever
\* collaborator fails (session store create, request-token call, activity
\* log write).
C17_RedirectOrTypedError ==
    resp.kind # "none" =>
        \/ resp.kind = "redirect" /\ resp.error = ""
        \/ resp.kind = "notifyErr" /\ resp.error # ""

\* the handler found a Custom session and its callback is an app-install
\* update: setup_action=update with an installation_id and a state
InstallUpdate(h) ==
    /\ cpc[h] = "done"
    /\ FoundSession(h)
    /\ csession[h].authMode = Custom
    /\ creq[h].setup_action = "update"
    /\ creq[h].installation_id # ""
    /\ creq[h].state # ""

\* C28: a Custom-mode callback that is an app-install update and carries no
\* code ends in notifySuccess, with no token exchange and no upsert of a
\* connection.
C28_UpdateWithoutCodeSucceeds ==
    \A h \in Handlers : (InstallUpdate(h) /\ ~creq[h].granted) =>
        /\ cout[h].kind = "notifySuccess"
        /\ ~chist[h].exchanged
        /\ chist[h].writes = 0

\* the handler found its session, and the callback lacks what the flow of
\* the session needs: the code (OAuth2), oauth_token or oauth_verifier (OAuth1)
MissingGrant(h) ==
    /\ cpc[h] = "done"
    /\ FoundSession(h)
    /\ csession[h].authMode \in {OAuth2, OAuth1}
    /\ ~creq[h].granted

\* C29: a callback for an OAuth2 session without code, or for an OAuth1
\* session without oauth_token or oauth_verifier, is answered with the
\* InvalidCallback error of its flow on the channel of the session; the
\* handler makes no token exchange and writes no connection row.
C29_MissingGrantIsInvalidCallback ==
    \A h \in Handlers : MissingGrant(h) =>
        /\ cout[h].kind = "notifyErr"
        /\ cout[h].error = (IF csession[h].authMode = OAuth2 THEN "InvalidCallbackOAuth2"
                            ELSE "InvalidCallbackOAuth1")
        /\ cout[h].channel = csession[h].webSocketClientId
        /\ cout[h].channel # ""
        /\ ~chist[h].exchanged
        /\ chist[h].writes = 0

\* an OAuth2 callback without code and an OAuth1 callback without its
\* tokens have both been answered
C29_Witness ==
    \E h, g \in Handlers :
        /\ MissingGrant(h) /\ csession[h].authMode = OAuth2
        /\ MissingGrant(g) /\ csession[g].authMode = OAuth1

\* C36: a callback (OAuth2/Custom or OAuth1) that reports an error to the
\* client with notifyErr and fires the connectionCreationFailed hook has
\* neither created nor updated a Connection row, and has not fired the
\* connectionCreated hook.
C36_FailedCallbackWroteNothing ==
    \A h \in Handlers :
        (/\ cpc[h] = "done"
         /\ cout[h].kind = "notifyErr"
         /\ ConnectionCreationFailed \in chist[h].hooks)
            => /\ chist[h].writes = 0
               /\ ConnectionCreated \notin chist[h].hooks

\* C37: a Custom-mode callback that carries an installation_id and has made
\* the token exchange sends notifySuccess with pending = false only if
\* getAppCredentialsAndFinishConnection minted App credentials and stored
\* them for the connection; when minting fails the client is not told that
\* the connection is complete.
C37_CompleteOnlyWithAppCredentials ==
    \A h \in Handlers :
        (/\ cpc[h] = "done"
         /\ csession[h].authMode = Custom
         /\ creq[h].installation_id # ""
         /\ chist[h].exchanged
         /\ cout[h].kind = "notifySuccess"
         /\ ~cout[h].pending)
            => /\ chist[h].writes = 2
               /\ ccall[h].credentials.type = App

\* C40: the connection_config a successful OAuth2/Custom callback stores
\* contains every key of the session's connection config, of the token
\* response metadata and of the callback request metadata (callback over
\* token over session), plus the pending or installation_id marker, with
\* or without client id/secret overrides in the session; only the keys
\* oauth_client_id_override and oauth_client_secret_override are removed.
MarkerKeys == {"installation_id", "app_id", "pending", "pendingLog"}

C40_ConnectionConfigMerged ==
    merge.step = "stored" =>
        LET merged == SpreadConfig(SpreadConfig(merge.sessionConfig, merge.tokenMetadata),
                             merge.callbackMetadata)
            stored == merge.connection_config
        IN  /\ \A k \in MergeKeys \ (OverrideKeys \cup MarkerKeys \cup {"oauth_scopes_override"}) :
                    stored[k] = merged[k]
            /\ stored["oauth_scopes_override"] # "" <=> merged["oauth_scopes_override"] # ""
            /\ \A k \in OverrideKeys : stored[k] = ""
            /\ (merge.authMode = Custom /\ merge.installationId = "")
                    => stored["pending"] = "true"
            /\ (merge.authMode = Custom /\ merge.installationId # "")
                    => stored["installation_id"] = merge.installationId

\* C35: every invocation of oauthCallback sends exactly one HTTP response (a
\* redirect, a success notification or an error notification), also when
\* the request has no state and when no session matches the state: a
\* handler that has returned has answered.
C35_CallbackAnswered ==
    \A h \in Handlers :
        cpc[h] = "done" => cout[h].kind \in {"redirect", "notifySuccess", "notifyErr"}

\* the handler found its session, and the token exchange it made failed: the
\* provider call threw, or its response could not be parsed
ExchangeFailed(h) ==
    /\ cpc[h] = "done"
    /\ FoundSession(h)
    /\ chist[h].exchanged
    /\ chist[h].parsed # "ok"

\* C18: for every callback whose session was found, a failure of the token
\* exchange (OAuth2/Custom or OAuth1) is reported with notifyErr on the
\* channel of the session and the handler ends without an exception and
\* without writing a connection; the session stays deleted, so a later
\* callback with that state finds nothing.
C18_ExchangeFailureNotified ==
    \A h \in Handlers : ExchangeFailed(h) =>
        /\ cout[h].kind = "notifyErr"
        /\ cout[h].error = "UnknownError"
        /\ cout[h].channel = csession[h].webSocketClientId
        /\ cout[h].channel # ""
        /\ chist[h].writes = 0
        /\ FindById(csession[h].id) = {}
        /\ \A g \in Handlers \ {h} :
              (chist[g].prior /\ creq[g].state = csession[h].id) => ~FoundSession(g)

\* the exchange of an OAuth1 callback threw, and a later callback with the
\* same state has been handled
C18_Witness ==
    \E h, g \in Handlers :
        /\ ExchangeFailed(h)
        /\ chist[h].parsed = ""
        /\ csession[h].authMode = OAuth1
        /\ g # h /\ cpc[g] = "done" /\ chist[g].prior /\ creq[g].state = csession[h].id

\* C24: overrides of the request are available again at callback time: for
\* OAuth2 and Custom sessions, the client id, client secret and scopes the
\* callback uses for the token exchange are those the request used (here for
\* the session of the last request)
C24_OverridesAtCallback ==
    \A h \in Handlers :
        (chist[h].exchanged /\ resp.session # "" /\ csession[h].id = resp.session)
            => chist[h].config = LiveConfig(resp.request)

\* the authorization URL oauth2Request builds for the request and session of
\* resp from the template as it is configured
UrlFromConfigured ==
    AuthorizeURL(resp.request.template_params, resp.request,
                 [id |-> resp.session, codeVerifier |-> resp.codeVerifier])

\* C20: the ProviderTemplate is immutable: after any sequence of oauthRequest
\* invocations every template configService holds, its authorization_params
\* included, equals its configured value, and the authorization URL of a
\* request is the one built from the configured template, whatever requests
\* came before
C20_TemplateImmutable ==
    /\ templates = ConfiguredTemplates
    /\ (resp.kind = "redirect" /\ resp.authMode = OAuth2) => resp.url = UrlFromConfigured

\* raw responses with every combination of the fields the parser requires
RawInputs ==
    {RawResponse(at, rt, 0, ProviderExpiresInSec, ot, os, tk) :
        at \in {"", "at"}, rt \in {"", "rt"}, ot \in {"", "ot"}, os \in {"", "os"},
        tk \in {"", "tk"}}

\* the credentials have the fields their variant requires
Complete(credentials) ==
    CASE credentials.type = OAuth2 -> credentials.access_token # ""
      [] credentials.type = OAuth1 ->
            credentials.oauth_token # "" /\ credentials.oauth_token_secret # ""
      [] credentials.type = OAuth2CC -> credentials.token # ""
      [] OTHER -> TRUE

\* C10: parseRawCredentials returns a complete variant of the requested mode
\* (OAuth2: access_token; OAuth1: oauth_token and oauth_token_secret;
\* OAuth2CC: token) or throws; a callback in which it throws creates and
\* updates no row and notifies an error; and no stored OAuth2, OAuth1 or
\* OAuth2CC credentials lack a required field.
C10_ParseCompleteOrThrows ==
    /\ \A raw \in RawInputs : \A authMode \in {OAuth2, OAuth1, OAuth2CC} :
            LET parsed == ParseRawCredentials(raw, authMode, now)
            IN  parsed.ok =>
                    /\ parsed.credentials.type = authMode
                    /\ Complete(parsed.credentials)
                    /\ parsed.credentials.raw = raw
    /\ \A h \in Handlers :
            chist[h].parsed = "threw" =>
                /\ chist[h].writes = 0
                /\ cpc[h] = "done" /\ cout[h].kind = "notifyErr"
    /\ \A r \in rows : Complete(r.credentials)

\* the provider answered a callback's token exchange without an access token
\* (or token secret) while another callback's connection is stored
C10_Witness ==
    \E h \in Handlers :
        /\ chist[h].parsed = "threw" /\ chist[h].exchanged /\ cpc[h] = "done"
        /\ \E r \in rows : r.credentials.type \in {OAuth2, OAuth1}

----------------------------------------------------------------------------
(* Claims about the Encryption Envelope *)

\* the credentials hold a Date
HoldsDate(credentials) ==
    "expires_at" \in DOMAIN credentials /\ credentials.expires_at.typeof = "object"

\* C12 (as stated): decryptConnection(encryptConnection(c)).credentials equals
\* c.credentials when an encryption key is configured; with no key
\* encryptConnection returns c verbatim and decryptConnection returns the
\* stored row unchanged.
C12_RoundTripIsIdentity ==
    estep = "read" =>
        IF ShouldEncrypt(encryptionKey)
        THEN eout.ok /\ eout.connection.credentials = ein.credentials
        ELSE estored = ein /\ eout.ok /\ eout.connection = estored

\* C12 (amended): with a key configured the round trip returns the JSON image
\* of c.credentials: every field as it was, except that a Date comes back as
\* its ISO string, so the credentials are equal exactly when they hold no
\* Date; the other columns come back as they were, with the iv and the tag
\* of the stored row.  With no key both functions return their argument.
C12_RoundTripIsJsonImage ==
    estep = "read" =>
        IF ShouldEncrypt(encryptionKey)
        THEN /\ eout.ok
             /\ eout.connection.credentials = JsonParse(JsonStringify(ein.credentials))
             /\ (eout.connection.credentials = ein.credentials) <=> ~HoldsDate(ein.credentials)
             /\ eout.connection = [estored EXCEPT !.credentials = eout.connection.credentials]
             /\ eout.connection.id = ein.id
             /\ estored.credentials_iv \in Ivs
        ELSE estored = ein /\ eout.ok /\ eout.connection = estored

\* OAuth2 credentials with an expiry went through the envelope under a key
C12_Witness ==
    /\ estep = "read"
    /\ ShouldEncrypt(encryptionKey)
    /\ ein.credentials.type = OAuth2
    /\ HoldsDate(ein.credentials)
    /\ eout.ok
    /\ eout.connection.credentials.expires_at = JsIsoString(ein.credentials.expires_at.ms)

\* the row of the table with this id
RowOf(table, id) == CHOOSE r \in table : r.id = id

\* the table holds the rows of `before`, each encrypted once under key k
EncryptedImageOf(table, before, k) ==
    /\ {r.id : r \in table} = {r.id : r \in before}
    /\ \A r \in before :
        /\ IsEncrypted(RowOf(table, r.id))
        /\ DecryptConnection(RowOf(table, r.id), k).ok
        /\ DecryptConnection(RowOf(table, r.id), k).connection.credentials = r.credentials
        /\ mtimes[r.id] = 1

\* C13: when a key is configured for the first time on a database holding N
\* rows in clear, encryptDatabaseIfNeeded encrypts exactly those N rows, each
\* exactly once, and records the checkpoint (hash of the key, complete); a
\* run with the same key after that changes no row and leaves the checkpoint
\* as it is, at every step.
C13_MigrationEncryptsOnceThenNoOp ==
    /\ ( /\ mpc = "returned"
         /\ mstart.dbConfig = {}
         /\ ShouldEncrypt(encryptionKey)
         /\ \A r \in mstart.dbConnections : ~IsEncrypted(r) )
       => /\ EncryptedImageOf(dbConnections, mstart.dbConnections, encryptionKey)
          /\ dbConfig = {DBConfig(HashEncryptionKey(encryptionKey), TRUE)}
    /\ ( /\ mpc \in Running \cup {"returned", "thrown"}
         /\ ShouldEncrypt(encryptionKey)
         /\ mstart.dbConfig = {DBConfig(HashEncryptionKey(encryptionKey), TRUE)} )
       => /\ mpc \in {"start", "returned"}
          /\ dbConnections = mstart.dbConnections
          /\ dbConfig = mstart.dbConfig

\* a first run encrypted every row of a full table, and the run after it,
\* with the same key, has returned
C13_Witness ==
    /\ mpc = "returned"
    /\ mruns = 2
    /\ mkeys = {encryptionKey}
    /\ ShouldEncrypt(encryptionKey)
    /\ mstart.dbConfig = {DBConfig(HashEncryptionKey(encryptionKey), TRUE)}
    /\ Cardinality(dbConnections) = MaxRows
    /\ \A r \in dbConnections : IsEncrypted(r) /\ mtimes[r.id] = 1

\* C14: if encryptDatabaseIfNeeded is interrupted at any point (between the
\* delete and the insert of the checkpoint included) and run again with the
\* same key, rows that carry an iv and a tag are skipped, no row is ever
\* encrypted twice, and when a run returns every row is encrypted (it
\* decrypts under the key to credentials in clear) and the checkpoint is
\* complete.
C14_MigrationResumes ==
    (mkeys \in {{k} : k \in EncryptionKeys}) =>
        /\ \A id \in RowIds : mtimes[id] <= 1
        /\ \A r \in dbConnections : IsEncrypted(r) <=> mtimes[r.id] = 1
        /\ mpc = "returned" =>
              /\ dbConfig = {DBConfig(HashEncryptionKey(encryptionKey), TRUE)}
              /\ \A r \in dbConnections :
                    /\ IsEncrypted(r)
                    /\ DecryptConnection(r, encryptionKey).ok
                    /\ DecryptConnection(r, encryptionKey).connection.credentials
                          \in PlaintextCredentialInputs

\* a run that began on a table partly encrypted by an interrupted run, with
\* the checkpoint row deleted, has returned
C14_Witness ==
    /\ mpc = "returned"
    /\ mruns = MaxRuns
    /\ mkeys \in {{k} : k \in EncryptionKeys}
    /\ mstart.dbConfig = {}
    /\ \E r \in mstart.dbConnections : IsEncrypted(r)
    /\ Cardinality(dbConnections) = MaxRows
    /\ \A r \in dbConnections : IsEncrypted(r)

\* the key of this boot is not the one of the checkpoint the boot found
KeyEditedOrRemoved ==
    /\ mstart.booted
    /\ mstart.dbConfig # {}
    /\ \A c \in mstart.dbConfig :
        c.encryption_key_hash # "" /\ c.encryption_key_hash # EncryptionKeyHash(encryptionKey)

\* C15: once a checkpoint with a key hash exists (complete or not), a run of
\* encryptDatabaseIfNeeded with another key or with no key throws, and
\* modifies no row and no checkpoint.
C15_KeyChangeRejected ==
    (KeyEditedOrRemoved /\ mpc # "down") =>
        /\ mpc \in {"start", "thrown"}
        /\ dbConnections = mstart.dbConnections
        /\ dbConfig = mstart.dbConfig

\* a boot without the key, on a checkpoint that is not complete, has thrown
C15_Witness ==
    /\ mpc = "thrown"
    /\ KeyEditedOrRemoved
    /\ encryptionKey = NoKey
    /\ \E c \in dbConfig : ~c.encryption_complete
    /\ \E r \in dbConnections : IsEncrypted(r)
    /\ \E r \in dbConnections : ~IsEncrypted(r)

====
